---- MODULE Spec2Model ----
(***************************************************************************)
(* A model of the memcached protocol adapter of src/memcached/protocol.cc: *)
(* the read/write request algebra (get_region, shard, unshard), the store  *)
(* handle (token minting, superblock acquisition under the FIFO enforcer,  *)
(* metainfo persistence on the superblock), the read/write dispatch, and   *)
(* the backfill producer and receiver.                                     *)
(*                                                                         *)
(* The collaborators that protocol.cc only calls (key_range_t,             *)
(* region_map_t, the FIFO enforcer, the B-tree operations, the superblock  *)
(* metainfo accessors) are modelled from their contracts in the            *)
(* specification document.                                                 *)
(***************************************************************************)
EXTENDS Integers, Sequences, FiniteSets, TLC

(***************************************************************************)
(* Bounds of the model.                                                    *)
(***************************************************************************)
\* the largest byte value of a key (255 in the program)
MaxByte == 1
\* the largest key length (MAX_KEY_SIZE, 250 in the program)
MaxKeyLen == 2
\* the number of operations (tokens) one behaviour of the store mints
NumOps == 3
\* the largest transition timestamp a write carries
MaxTime == 1

(***************************************************************************)
(* Keys: byte strings ordered lexicographically (store_key_t).             *)
(***************************************************************************)
Bytes == 0..MaxByte

RECURSIVE KeysOfLen(_)
KeysOfLen(n) ==
  IF n = 0 THEN {<<>>}
  ELSE {Append(k, b) : k \in KeysOfLen(n - 1), b \in Bytes}

Keys == UNION {KeysOfLen(n) : n \in 0..MaxKeyLen}

\* the smallest key, store_key_t()
MinKey == <<>>

KeyLess(a, b) ==
  \E i \in 1..Len(b) :
    /\ i - 1 <= Len(a)
    /\ \A j \in 1..(i - 1) : a[j] = b[j]
    /\ (Len(a) = i - 1 \/ a[i] < b[i])

KeyLeq(a, b) == a = b \/ KeyLess(a, b)

\* store_key_t::increment when the key is full: drop the trailing maximal
\* bytes and add one to the last byte left
RECURSIVE StripMaxBytes(_)
StripMaxBytes(k) ==
  IF Len(k) > 0 /\ k[Len(k)] = MaxByte
  THEN StripMaxBytes(SubSeq(k, 1, Len(k) - 1))
  ELSE k

\* store_key_t::increment succeeds unless the key is the largest key
CanIncrement(k) == Len(k) < MaxKeyLen \/ StripMaxBytes(k) # <<>>

\* store_key_t::increment: the next key in the order
Increment(k) ==
  IF Len(k) < MaxKeyLen THEN Append(k, 0)
  ELSE LET s == StripMaxBytes(k)
       IN [s EXCEPT ![Len(s)] = s[Len(s)] + 1]

(***************************************************************************)
(* key_range_t: the half-open range [left, right), right possibly          *)
(* unbounded.                                                              *)
(***************************************************************************)
RightUnbounded == [unbounded |-> TRUE, key |-> MinKey]

RightKey(k) == [unbounded |-> FALSE, key |-> k]

MkRange(l, r) == [left |-> l, right |-> r]

\* key_range_t::universe()
Universe == MkRange(MinKey, RightUnbounded)

\* key_range_t::empty()
EmptyRange == MkRange(MinKey, RightKey(MinKey))

\* the constructor key_range_t(left_mode, left_key, right_mode, right_key)
KeyRange(lm, l, rm, r) ==
  IF lm = "open" /\ ~CanIncrement(l) THEN EmptyRange
  ELSE MkRange(
         CASE lm = "closed" -> l
           [] lm = "open" -> Increment(l)
           [] OTHER -> MinKey,
         CASE rm = "open" -> RightKey(r)
           [] rm = "closed" ->
                IF CanIncrement(r) THEN RightKey(Increment(r)) ELSE RightUnbounded
           [] OTHER -> RightUnbounded)

\* a key against a right bound
KeyBelowRight(k, rb) == rb.unbounded \/ KeyLess(k, rb.key)

RightLeq(a, b) == b.unbounded \/ (~a.unbounded /\ KeyLeq(a.key, b.key))

\* key_range_t::contains_key
contains_key(range, k) == KeyLeq(range.left, k) /\ KeyBelowRight(k, range.right)

region_is_empty(r) == ~KeyBelowRight(r.left, r.right)

region_is_superset(a, b) ==
  \/ region_is_empty(b)
  \/ (KeyLeq(a.left, b.left) /\ RightLeq(b.right, a.right))

region_intersection(a, b) ==
  LET l == IF KeyLess(a.left, b.left) THEN b.left ELSE a.left
      r == IF RightLeq(a.right, b.right) THEN a.right ELSE b.right
  IN IF KeyBelowRight(l, r) THEN MkRange(l, r) ELSE EmptyRange

region_overlaps(a, b) == ~region_is_empty(region_intersection(a, b))

\* the parts of a outside b, in ascending order
region_subtract(a, b) ==
  IF ~region_overlaps(a, b) THEN (IF region_is_empty(a) THEN <<>> ELSE <<a>>)
  ELSE (IF KeyLess(a.left, b.left) THEN <<MkRange(a.left, RightKey(b.left))>> ELSE <<>>)
       \o (IF ~b.right.unbounded /\ KeyBelowRight(b.right.key, a.right)
           THEN <<MkRange(b.right.key, a.right)>> ELSE <<>>)

RECURSIVE SubtractFromAll(_, _)
SubtractFromAll(pieces, b) ==
  IF pieces = <<>> THEN <<>>
  ELSE region_subtract(Head(pieces), b) \o SubtractFromAll(Tail(pieces), b)

RECURSIVE region_subtract_many(_, _)
region_subtract_many(a, bs) ==
  IF bs = <<>> THEN (IF region_is_empty(a) THEN <<>> ELSE <<a>>)
  ELSE SubtractFromAll(region_subtract_many(a, SubSeq(bs, 1, Len(bs) - 1)), bs[Len(bs)])

(***************************************************************************)
(* region_map_t<V>: a sequence of (region, value) pairs.                   *)
(***************************************************************************)
MkPair(r, v) == [region |-> r, value |-> v]

\* the value of get_domain() when the regions do not join to one key range
BadRegion == [left |-> MinKey, right |-> [unbounded |-> FALSE, key |-> <<MaxByte + 1>>]]

RECURSIVE NonEmptyPairs(_)
NonEmptyPairs(m) ==
  IF m = <<>> THEN <<>>
  ELSE (IF region_is_empty(Head(m).region) THEN <<>> ELSE <<Head(m)>>)
       \o NonEmptyPairs(Tail(m))

\* region_map_t::get_domain: the join of the regions of the map
get_domain(m) ==
  LET ne == NonEmptyPairs(m)
      I == 1..Len(ne)
  IN IF ne = <<>> THEN EmptyRange
     ELSE LET lo == CHOOSE i \in I : \A j \in I : KeyLeq(ne[i].region.left, ne[j].region.left)
              hi == CHOOSE i \in I : \A j \in I : RightLeq(ne[j].region.right, ne[i].region.right)
              disjoint == \A i \in I : \A j \in I :
                            i # j => ~region_overlaps(ne[i].region, ne[j].region)
              chained == \A i \in I :
                           \/ ne[i].region.right = ne[hi].region.right
                           \/ \E j \in I : ne[j].region.left = ne[i].region.right.key
          IN IF disjoint /\ chained
             THEN MkRange(ne[lo].region.left, ne[hi].region.right)
             ELSE BadRegion

\* region_map_t::mask: the map restricted to sub
RECURSIVE mask(_, _)
mask(m, sub) ==
  IF m = <<>> THEN <<>>
  ELSE (IF region_overlaps(Head(m).region, sub)
        THEN <<MkPair(region_intersection(Head(m).region, sub), Head(m).value)>>
        ELSE <<>>)
       \o mask(Tail(m), sub)

RegionsOf(m) == [i \in 1..Len(m) |-> m[i].region]

RECURSIVE KeepOutside(_, _)
KeepOutside(m, overlay_regions) ==
  IF m = <<>> THEN <<>>
  ELSE LET old_subregions == region_subtract_many(Head(m).region, overlay_regions)
       IN [i \in 1..Len(old_subregions) |-> MkPair(old_subregions[i], Head(m).value)]
          \o KeepOutside(Tail(m), overlay_regions)

\* region_map_t::update: overlay ref on m; the parts of m outside ref keep
\* their values
update(m, ref) == KeepOutside(m, RegionsOf(ref)) \o ref

\* operator== of region maps: equal domains and equal values wherever two
\* partitions overlap
RegionMapEq(a, b) ==
  /\ get_domain(a) = get_domain(b)
  /\ \A i \in 1..Len(a) : \A j \in 1..Len(b) :
       region_overlaps(a[i].region, b[j].region) => a[i].value = b[j].value

\* the values the map gives to key k (one value when the map is a partition)
ValuesAt(m, k) == {m[i].value : i \in {j \in 1..Len(m) : contains_key(m[j].region, k)}}

(***************************************************************************)
(* The framing codec of a key range (operator<< / deserialize of           *)
(* key_range_t): left key, unbounded flag, right key, each key prefixed by *)
(* its length.                                                             *)
(***************************************************************************)
SerializeKey(k) == <<Len(k)>> \o k

SerializeRange(r) ==
  SerializeKey(r.left) \o <<IF r.right.unbounded THEN 1 ELSE 0>> \o SerializeKey(r.right.key)

DeserializeRange(bytes) ==
  LET ll == bytes[1]
      l == SubSeq(bytes, 2, 1 + ll)
      unb == bytes[2 + ll] = 1
      rl == bytes[3 + ll]
      r == SubSeq(bytes, 4 + ll, 3 + ll + rl)
  IN MkRange(l, [unbounded |-> unb, key |-> r])

(***************************************************************************)
(* The metainfo pairs on the superblock (clear_superblock_metainfo,        *)
(* set_superblock_metainfo, get_superblock_metainfo).                      *)
(***************************************************************************)
clear_superblock_metainfo == <<>>

set_superblock_metainfo(sb, key, value) ==
  IF \E i \in 1..Len(sb) : sb[i].key = key
  THEN [i \in 1..Len(sb) |-> IF sb[i].key = key THEN [key |-> key, value |-> value] ELSE sb[i]]
  ELSE Append(sb, [key |-> key, value |-> value])

get_superblock_metainfo(sb) == sb

(***************************************************************************)
(* The B-tree slice: for every key, no entry, a live value or a deletion   *)
(* entry (tombstone).  The memcached_* operations are the B-tree layer's.  *)
(***************************************************************************)
\* INVALID_CAS, the sentinel of "no proposed cas"
InvalidCas == -1

\* the cas_or_zero of a value that carries no cas
NoCas == 0

\* repli_timestamp_t::invalid
InvalidTime == -1

\* the largest value the B-tree stores (append and prepend refuse to exceed it)
MaxValueLen == 2

NoValue == [state |-> "none"]

Live(v, f, e, c, t) ==
  [state |-> "live", value |-> v, flags |-> f, exptime |-> e, cas |-> c, recency |-> t]

Tombstone(t) == [state |-> "deleted", recency |-> t]

EmptyData == [k \in Keys |-> NoValue]

\* a value is visible unless it is missing, deleted or expired at effective_time
IsLive(cell, effective_time) ==
  /\ cell.state = "live"
  /\ (cell.exptime = 0 \/ cell.exptime > effective_time)

\* the keys in ascending order
SortedKeys ==
  [i \in 1..Cardinality(Keys) |->
     CHOOSE k \in Keys : Cardinality({o \in Keys : KeyLess(o, k)}) = i - 1]

memcached_get(key, effective_time, d) ==
  IF IsLive(d[key], effective_time)
  THEN [found |-> TRUE, value |-> d[key].value, flags |-> d[key].flags, cas |-> d[key].cas]
  ELSE [found |-> FALSE, value |-> <<>>, flags |-> 0, cas |-> NoCas]

\* whether key lies within the rget bounds (none: unbounded on that side)
InRgetBounds(k, left_mode, left_key, right_mode, right_key) ==
  /\ CASE left_mode = "rget_bound_closed" -> KeyLeq(left_key, k)
       [] left_mode = "rget_bound_open" -> KeyLess(left_key, k)
       [] OTHER -> TRUE
  /\ CASE right_mode = "rget_bound_closed" -> KeyLeq(k, right_key)
       [] right_mode = "rget_bound_open" -> KeyLess(k, right_key)
       [] OTHER -> TRUE

RECURSIVE RgetScan(_, _, _, _, _, _, _)
RgetScan(ks, left_mode, left_key, right_mode, right_key, effective_time, d) ==
  IF ks = <<>> THEN <<>>
  ELSE (IF /\ InRgetBounds(Head(ks), left_mode, left_key, right_mode, right_key)
           /\ IsLive(d[Head(ks)], effective_time)
        THEN <<[key |-> Head(ks), value |-> d[Head(ks)].value]>>
        ELSE <<>>)
       \o RgetScan(Tail(ks), left_mode, left_key, right_mode, right_key, effective_time, d)

\* the range scan: the (key, value) pairs within the bounds, ascending by key
memcached_rget_slice(left_mode, left_key, right_mode, right_key, effective_time, d) ==
  RgetScan(SortedKeys, left_mode, left_key, right_mode, right_key, effective_time, d)

\* get_cas gives the value a cas when it has none
memcached_get_cas(key, proposed_cas, effective_time, timestamp, d) ==
  IF ~IsLive(d[key], effective_time)
  THEN [data |-> d, result |-> [kind |-> "get_cas", found |-> FALSE]]
  ELSE LET c == IF d[key].cas = NoCas THEN proposed_cas ELSE d[key].cas
       IN [data |-> [d EXCEPT ![key].cas = c,
                               ![key].recency = IF d[key].cas = NoCas THEN timestamp ELSE @],
           result |-> [kind |-> "get_cas", found |-> TRUE, value |-> d[key].value, cas |-> c]]

memcached_set(key, value, flags, exptime, add_policy, replace_policy, old_cas, proposed_cas, effective_time, timestamp, d) ==
  LET exists == IsLive(d[key], effective_time)
      refused ==
        IF exists
        THEN \/ replace_policy = "no"
             \/ (replace_policy = "if_cas_matches"
                  /\ (d[key].cas = NoCas \/ d[key].cas # old_cas))
        ELSE add_policy = "no"
      c == IF exists /\ d[key].cas # NoCas THEN proposed_cas ELSE NoCas
  IN IF refused
     THEN [data |-> d,
           result |-> [kind |-> "set", stored |-> FALSE]]
     ELSE [data |-> [d EXCEPT ![key] = Live(value, flags, exptime, c, timestamp)],
           result |-> [kind |-> "set", stored |-> TRUE]]

\* the number a value holds when every byte is a decimal digit
RECURSIVE DigitsValue(_)
DigitsValue(v) ==
  IF v = <<>> THEN 0 ELSE 10 * DigitsValue(SubSeq(v, 1, Len(v) - 1)) + v[Len(v)]

RECURSIVE ToDigits(_)
ToDigits(n) == IF n < 10 THEN <<n>> ELSE Append(ToDigits(n \div 10), n % 10)

IsNumeric(v) == v # <<>> /\ \A i \in 1..Len(v) : v[i] \in 0..9

\* the width at which incr wraps (64 bits in the program)
CounterWrap == 2 ^ 30

\* incr wraps, decr stops at zero
memcached_incr_decr(key, increment, amount, proposed_cas, effective_time, timestamp, d) ==
  IF ~IsLive(d[key], effective_time)
  THEN [data |-> d, result |-> [kind |-> "incr_decr", res |-> "not_found"]]
  ELSE IF ~IsNumeric(d[key].value)
  THEN [data |-> d, result |-> [kind |-> "incr_decr", res |-> "not_numeric"]]
  ELSE LET old == DigitsValue(d[key].value)
           new == IF increment THEN (old + amount) % CounterWrap
                  ELSE IF amount > old THEN 0 ELSE old - amount
       IN [data |-> [d EXCEPT ![key].value = ToDigits(new),
                               ![key].cas = IF @ # NoCas THEN proposed_cas ELSE @,
                               ![key].recency = timestamp],
           result |-> [kind |-> "incr_decr", res |-> "success", new_value |-> new]]

memcached_append_prepend(key, value, append, proposed_cas, effective_time, timestamp, d) ==
  IF ~IsLive(d[key], effective_time)
  THEN [data |-> d, result |-> [kind |-> "append_prepend", res |-> "not_found"]]
  ELSE IF Len(d[key].value) + Len(value) > MaxValueLen
  THEN [data |-> d, result |-> [kind |-> "append_prepend", res |-> "too_large"]]
  ELSE [data |-> [d EXCEPT ![key].value = IF append THEN @ \o value ELSE value \o @,
                            ![key].cas = IF @ # NoCas THEN proposed_cas ELSE @,
                            ![key].recency = timestamp],
        result |-> [kind |-> "append_prepend", res |-> "success"]]

\* delete leaves a deletion entry carrying the timestamp
memcached_delete(key, dont_put_in_delete_queue, effective_time, timestamp, d) ==
  IF ~IsLive(d[key], effective_time)
  THEN [data |-> d, result |-> [kind |-> "delete", res |-> "not_found"]]
  ELSE [data |-> [d EXCEPT ![key] = Tombstone(timestamp)],
        result |-> [kind |-> "delete", res |-> "deleted"]]

\* erase_range over a key range: every entry of the range is dropped
memcached_erase_range(range, d) ==
  [k \in Keys |-> IF contains_key(range, k) THEN NoValue ELSE d[k]]

\* erase_range over (left exclusive, right inclusive) keys, each optional,
\* keeping the keys the tester does not want erased
memcached_erase_range_keys(tester, left_key_supplied, left_key_exclusive, right_key_supplied, right_key_inclusive, d) ==
  [k \in Keys |->
     IF /\ (~left_key_supplied \/ KeyLess(left_key_exclusive, k))
        /\ (~right_key_supplied \/ KeyLeq(k, right_key_inclusive))
        /\ contains_key(tester, k)
     THEN NoValue ELSE d[k]]

(***************************************************************************)
(* Serialization of data buffers: a flag saying whether there is a buffer, *)
(* then its size as an int64_t and its bytes.                              *)
(***************************************************************************)
\* the bytes of an int64_t
Int64Bytes == 8

\* an int64_t on the stream: two's complement, least significant byte first
serialize_int64(v) ==
  LET base == MaxByte + 1
      u == IF v < 0 THEN v + base ^ Int64Bytes ELSE v
  IN [i \in 1..Int64Bytes |-> (u \div (base ^ (i - 1))) % base]

\* operator<< for a data buffer
serialize_data_buffer(buf) ==
  IF buf.present
  THEN <<1>> \o serialize_int64(Len(buf.bytes)) \o buf.bytes
  ELSE <<0>>

\* deserialize trusting the size it reads
deserialize_data_buffer_trusting_size(s, fails, uninitialised) ==
  LET none == [present |-> FALSE, bytes |-> <<>>]
      short == IF fails THEN -1 ELSE -2
      int64s == (0 - ((MaxByte + 1) ^ Int64Bytes) \div 2)
                  ..(((MaxByte + 1) ^ Int64Bytes - 1) \div 2)
  IN IF Len(s) < 1 THEN [res |-> short, buf |-> none]
     ELSE IF s[1] = 0 THEN [res |-> 0, buf |-> none]
     ELSE IF Len(s) < 1 + Int64Bytes THEN [res |-> short, buf |-> none]
     ELSE LET size == CHOOSE v \in int64s :
                        serialize_int64(v) = SubSeq(s, 2, 1 + Int64Bytes)
              wanted == IF size < 0 THEN 0 ELSE size
              available == Len(s) - 1 - Int64Bytes
              num_read == IF available < wanted THEN available ELSE wanted
              created == [present |-> TRUE,
                          bytes |-> [i \in 1..wanted |->
                                       IF i <= num_read THEN s[1 + Int64Bytes + i]
                                       ELSE uninitialised[i]]]
          IN IF num_read < wanted THEN [res |-> short, buf |-> created]
             ELSE [res |-> 0, buf |-> created]

\* deserialize for a data buffer: the result code (0 for success) and the
\* buffer it leaves in *buf, which is taken to be null at the call.  s is
\* the bytes the stream has, and fails tells how the stream ends: with a
\* read error, on which a primitive deserialize and force_read give -1, or
\* with the end of the data, on which a primitive deserialize gives -2 and
\* force_read the number of bytes there were.  The flag and the size are
\* read whole or not at all.  The buffer is created with the size read
\* before anything is read into it: uninitialised is what its memory holds
\* then, and what stays in the bytes force_read does not reach
deserialize_data_buffer(s, fails, uninitialised) ==
  LET none == [present |-> FALSE, bytes |-> <<>>]
      short == IF fails THEN -1 ELSE -2
      int64s == (0 - ((MaxByte + 1) ^ Int64Bytes) \div 2)
                  ..(((MaxByte + 1) ^ Int64Bytes - 1) \div 2)
  IN IF Len(s) < 1 THEN [res |-> short, buf |-> none]
     ELSE IF s[1] = 0 THEN [res |-> 0, buf |-> none]
     ELSE IF Len(s) < 1 + Int64Bytes THEN [res |-> short, buf |-> none]
     ELSE LET size == CHOOSE v \in int64s :
                        serialize_int64(v) = SubSeq(s, 2, 1 + Int64Bytes)
              available == Len(s) - 1 - Int64Bytes
              num_read == IF available < size THEN available ELSE size
          IN IF size < 0 THEN [res |-> -3, buf |-> none]
             ELSE LET created == [present |-> TRUE,
                                  bytes |-> [i \in 1..size |->
                                               IF i <= num_read THEN s[1 + Int64Bytes + i]
                                               ELSE uninitialised[i]]]
                  IN IF num_read < size
                     THEN [res |-> short, buf |-> created]
                     ELSE [res |-> 0, buf |-> created]

(***************************************************************************)
(* The request algebra: read_t and write_t with get_region, shard and      *)
(* unshard.                                                                *)
(***************************************************************************)
get_query_t(key) == [type |-> "get", key |-> key]

rget_query_t(left_mode, left_key, right_mode, right_key) ==
  [type |-> "rget", left_mode |-> left_mode, left_key |-> left_key,
   right_mode |-> right_mode, right_key |-> right_key]

read_t(query, effective_time) == [query |-> query, effective_time |-> effective_time]

convert_bound_mode(rbm) ==
  CASE rbm = "rget_bound_open" -> "open"
    [] rbm = "rget_bound_closed" -> "closed"
    [] rbm = "rget_bound_none" -> "none"

read_get_region_visitor(query) ==
  IF query.type = "get"
  THEN KeyRange("closed", query.key, "closed", query.key)
  ELSE KeyRange(convert_bound_mode(query.left_mode), query.left_key,
                convert_bound_mode(query.right_mode), query.right_key)

read_get_region(read) == read_get_region_visitor(read.query)

\* the rasserts of read_shard_visitor_t: what a caller of shard must respect
read_shard_pre(read, region) ==
  IF read.query.type = "get"
  THEN region = KeyRange("closed", read.query.key, "closed", read.query.key)
  ELSE region_is_superset(read_get_region(read), region)

\* read_shard_visitor_t giving the sub-query a closed right bound
read_shard_visitor_closed_right(query, region, effective_time) ==
  IF query.type = "get"
  THEN read_t(query, effective_time)
  ELSE read_t(
         rget_query_t("rget_bound_closed", region.left,
                      IF region.right.unbounded THEN "rget_bound_none" ELSE "rget_bound_closed",
                      IF region.right.unbounded THEN MinKey ELSE region.right.key),
         effective_time)

read_shard_visitor(query, region, effective_time) ==
  IF query.type = "get"
  THEN read_t(query, effective_time)
  ELSE read_t(
         rget_query_t("rget_bound_closed", region.left,
                      IF region.right.unbounded THEN "rget_bound_none" ELSE "rget_bound_open",
                      IF region.right.unbounded THEN MinKey ELSE region.right.key),
         effective_time)

read_shard(read, r) == read_shard_visitor(read.query, r, read.effective_time)

\* the mergees one after the other, in the order they were added
RECURSIVE MergeByConcatenation(_)
MergeByConcatenation(its) ==
  IF its = <<>> THEN <<>> ELSE Head(its) \o MergeByConcatenation(Tail(its))

\* merge_ordered_data_iterator_t: the smallest head of the mergees comes next
RECURSIVE MergeOrdered(_)
MergeOrdered(its) ==
  LET live == {i \in 1..Len(its) : its[i] # <<>>}
  IN IF live = {} THEN <<>>
     ELSE LET m == CHOOSE i \in live :
                     \A j \in live :
                       \/ KeyLess(its[i][1].key, its[j][1].key)
                       \/ (its[i][1].key = its[j][1].key /\ i <= j)
          IN <<its[m][1]>> \o MergeOrdered([its EXCEPT ![m] = Tail(its[m])])

\* read_unshard_visitor_t putting the responses one after the other
read_unshard_visitor_concatenating(query, bits) ==
  IF query.type = "get" THEN bits[1] ELSE MergeByConcatenation(bits)

\* the rassert of read_unshard_visitor_t for a get
read_unshard_pre(read, bits) == read.query.type = "get" => Len(bits) = 1

read_unshard_visitor(query, bits) ==
  IF query.type = "get" THEN bits[1] ELSE MergeOrdered(bits)

read_unshard(read, responses) == read_unshard_visitor(read.query, responses)

\* every mutation has a key
write_get_region_visitor(mutation) ==
  KeyRange("closed", mutation.key, "closed", mutation.key)

write_get_region(write) == write_get_region_visitor(write.mutation)

write_shard_pre(write, region) == region = write_get_region(write)

write_shard(write, region) == write

write_unshard_pre(responses) == Len(responses) = 1

write_unshard(write, responses) == responses[1]

\* read_visitor_t: the B-tree operation of a read query
read_visitor(query, effective_time, d) ==
  IF query.type = "get"
  THEN memcached_get(query.key, effective_time, d)
  ELSE memcached_rget_slice(query.left_mode, query.left_key, query.right_mode,
                            query.right_key, effective_time, d)

\* write_visitor_t: the B-tree operation of a mutation
write_visitor(m, proposed_cas, effective_time, timestamp, d) ==
  CASE m.type = "get_cas" ->
         memcached_get_cas(m.key, proposed_cas, effective_time, timestamp, d)
    [] m.type = "sarc" ->
         memcached_set(m.key, m.data, m.flags, m.exptime, m.add_policy, m.replace_policy,
                       m.old_cas, proposed_cas, effective_time, timestamp, d)
    [] m.type = "incr_decr" ->
         memcached_incr_decr(m.key, m.kind = "incr_decr_INCR", m.amount, proposed_cas,
                             effective_time, timestamp, d)
    [] m.type = "append_prepend" ->
         memcached_append_prepend(m.key, m.data, m.kind = "append_prepend_APPEND",
                                  proposed_cas, effective_time, timestamp, d)
    [] m.type = "delete" ->
         memcached_delete(m.key, m.dont_put_in_delete_queue, effective_time, timestamp, d)

(***************************************************************************)
(* The metainfo codec of the store.                                        *)
(***************************************************************************)
\* store_t::store_t with create = true: universe is mapped to the empty blob
store_created_metainfo ==
  set_superblock_metainfo(clear_superblock_metainfo, SerializeRange(Universe), <<>>)

\* get_metainfo_internal leaving out the pairs whose value has no bytes
get_metainfo_internal_skipping_empty(sb_buf) ==
  LET kv_pairs == get_superblock_metainfo(sb_buf)
      kept == SelectSeq(kv_pairs, LAMBDA p : p.value # <<>>)
  IN [i \in 1..Len(kept) |-> MkPair(DeserializeRange(kept[i].key), kept[i].value)]

\* get_metainfo_internal: the region map the pairs of the superblock decode to
get_metainfo_internal(sb_buf) ==
  LET kv_pairs == get_superblock_metainfo(sb_buf)
  IN [i \in 1..Len(kv_pairs) |->
        MkPair(DeserializeRange(kv_pairs[i].key), kv_pairs[i].value)]

RECURSIVE WritePairs(_, _)
WritePairs(sb_buf, m) ==
  IF m = <<>> THEN sb_buf
  ELSE WritePairs(
         set_superblock_metainfo(sb_buf, SerializeRange(Head(m).region), Head(m).value),
         Tail(m))

\* update_metainfo writing the pairs of new_metainfo alone
update_metainfo_new_only(old_metainfo, new_metainfo, sb_buf) ==
  WritePairs(clear_superblock_metainfo, new_metainfo)

\* update_metainfo without clear_superblock_metainfo
update_metainfo_no_clear(old_metainfo, new_metainfo, sb_buf) ==
  WritePairs(sb_buf, update(old_metainfo, new_metainfo))

\* update_metainfo: overlay new_metainfo on old_metainfo, clear the pairs and
\* write one pair per partition
update_metainfo(old_metainfo, new_metainfo, sb_buf) ==
  LET updated_metadata == update(old_metainfo, new_metainfo)
  IN WritePairs(clear_superblock_metainfo, updated_metadata)

\* the rassert of check_metainfo (compiled in debug builds only)
check_metainfo_ok(expected_metainfo, sb_buf) ==
  RegionMapEq(mask(get_metainfo_internal(sb_buf), get_domain(expected_metainfo)),
              expected_metainfo)

check_metainfo(sb_buf) == get_metainfo_internal(sb_buf)

check_and_update_metainfo(new_metainfo, sb_buf) ==
  update_metainfo(check_metainfo(sb_buf), new_metainfo, sb_buf)

(***************************************************************************)
(* Backfill: the chunks, the traversal of the B-tree that produces them,   *)
(* and the visitor that applies one chunk.                                 *)
(***************************************************************************)
delete_range_chunk(range) == [type |-> "delete_range", range |-> range]

delete_key_chunk(key, recency) == [type |-> "delete_key", key |-> key, recency |-> recency]

set_key_chunk(atom) == [type |-> "set_key", backfill_atom |-> atom]

\* a btree_key_t pointer: NULL or a key
NullKey == [present |-> FALSE, key |-> MinKey]

SomeKey(k) == [present |-> TRUE, key |-> k]

\* memcached_backfill_callback_t::on_delete_range
on_delete_range(left_exclusive, right_inclusive) ==
  delete_range_chunk(
    KeyRange(IF left_exclusive.present THEN "open" ELSE "none",
             IF left_exclusive.present THEN left_exclusive.key ELSE MinKey,
             IF right_inclusive.present THEN "closed" ELSE "none",
             IF right_inclusive.present THEN right_inclusive.key ELSE MinKey))

\* memcached_backfill_callback_t::on_deletion
on_deletion(key, recency) == delete_key_chunk(key, recency)

\* memcached_backfill_callback_t::on_keyvalue
on_keyvalue(atom) == set_key_chunk(atom)

\* the bits of a repli_timestamp_t (32 in the program)
RepliBits == 3

\* state_timestamp_t::to_repli_timestamp keeps the low bits only
to_repli_timestamp(t) == t % (2 ^ RepliBits)

\* repli_timestamp_t::invalid is the largest timestamp
TimeGeq(t, since) == t = InvalidTime \/ (since # InvalidTime /\ t >= since)

\* the leaves of the B-tree: (NULL, <<0>>] and (<<0>>, NULL)
Leaves ==
  << [left |-> NullKey, right |-> SomeKey(<<0>>)],
     [left |-> SomeKey(<<0>>), right |-> NullKey] >>

InLeaf(leaf, k) ==
  /\ (leaf.left.present => KeyLess(leaf.left.key, k))
  /\ (leaf.right.present => KeyLeq(k, leaf.right.key))

backfill_atom(k, cell) ==
  [key |-> k, value |-> cell.value, flags |-> cell.flags, exptime |-> cell.exptime,
   recency |-> cell.recency, cas_or_zero |-> cell.cas]

\* the entries of one leaf: every live value when the leaf's history does not
\* reach back to since_when, otherwise the values and deletions since then
RECURSIVE LeafEntries(_, _, _, _, _, _)
LeafEntries(ks, leaf, range, since_when, all, d) ==
  IF ks = <<>> THEN <<>>
  ELSE LET k == Head(ks)
           c == d[k]
       IN (IF ~(InLeaf(leaf, k) /\ contains_key(range, k)) THEN <<>>
           ELSE IF c.state = "live" /\ (all \/ TimeGeq(c.recency, since_when))
           THEN <<on_keyvalue(backfill_atom(k, c))>>
           ELSE IF c.state = "deleted" /\ ~all /\ TimeGeq(c.recency, since_when)
           THEN <<on_deletion(k, c.recency)>>
           ELSE <<>>)
          \o LeafEntries(Tail(ks), leaf, range, since_when, all, d)

LeafOverlaps(leaf, range) == \E k \in Keys : InLeaf(leaf, k) /\ contains_key(range, k)

\* memcached_backfill: the chunks of the traversal of range, leaf by leaf;
\* stale holds the leaves whose deletion history starts after since_when
RECURSIVE BackfillLeaves(_, _, _, _, _)
BackfillLeaves(ls, range, since_when, stale, d) ==
  IF ls = <<>> THEN <<>>
  ELSE LET leaf == Head(ls)
       IN (IF ~LeafOverlaps(leaf, range) THEN <<>>
           ELSE IF leaf \in stale
           THEN <<on_delete_range(leaf.left, leaf.right)>>
                \o LeafEntries(SortedKeys, leaf, range, since_when, TRUE, d)
           ELSE LeafEntries(SortedKeys, leaf, range, since_when, FALSE, d))
          \o BackfillLeaves(Tail(ls), range, since_when, stale, d)

memcached_backfill(range, since_when, stale, d) ==
  BackfillLeaves(Leaves, range, since_when, stale, d)

\* the loop of send_backfill over the partitions of start_point
RECURSIVE send_backfill_chunks(_, _, _)
send_backfill_chunks(start_point, stale, d) ==
  IF start_point = <<>> THEN <<>>
  ELSE memcached_backfill(Head(start_point).region,
                          to_repli_timestamp(Head(start_point).value), stale, d)
       \o send_backfill_chunks(Tail(start_point), stale, d)

\* receive_backfill_visitor_t proposing, for a key it sets, the cas after the
\* one the key has
receive_backfill_visitor_bumping_cas(chunk, d) ==
  CASE chunk.type = "delete_key" ->
         memcached_delete(chunk.key, TRUE, 0, InvalidTime, d).data
    [] chunk.type = "delete_range" ->
         memcached_erase_range_keys(chunk.range, Len(chunk.range.left) > 0, chunk.range.left,
                                    ~chunk.range.right.unbounded, chunk.range.right.key, d)
    [] chunk.type = "set_key" ->
         LET bf_atom == chunk.backfill_atom
         IN memcached_set(bf_atom.key, bf_atom.value, bf_atom.flags, bf_atom.exptime,
                          "yes", "yes", InvalidCas,
                          IF d[bf_atom.key].state = "live" THEN d[bf_atom.key].cas + 1
                          ELSE bf_atom.cas_or_zero,
                          0, InvalidTime, d).data

\* receive_backfill_visitor_t setting a key with add_policy_no
receive_backfill_visitor_add_policy_no(chunk, d) ==
  CASE chunk.type = "delete_key" ->
         memcached_delete(chunk.key, TRUE, 0, InvalidTime, d).data
    [] chunk.type = "delete_range" ->
         memcached_erase_range_keys(chunk.range, Len(chunk.range.left) > 0, chunk.range.left,
                                    ~chunk.range.right.unbounded, chunk.range.right.key, d)
    [] chunk.type = "set_key" ->
         LET bf_atom == chunk.backfill_atom
         IN memcached_set(bf_atom.key, bf_atom.value, bf_atom.flags, bf_atom.exptime,
                          "no", "yes", InvalidCas, bf_atom.cas_or_zero, 0, InvalidTime,
                          d).data

\* receive_backfill_visitor_t: the B-tree operation of one chunk
receive_backfill_visitor(chunk, d) ==
  CASE chunk.type = "delete_key" ->
         memcached_delete(chunk.key, TRUE, 0, InvalidTime, d).data
    [] chunk.type = "delete_range" ->
         LET range == chunk.range
             left_supplied == Len(range.left) > 0
             right_supplied == ~range.right.unbounded
         IN memcached_erase_range_keys(range, left_supplied, range.left,
                                       right_supplied, range.right.key, d)
    [] chunk.type = "set_key" ->
         LET bf_atom == chunk.backfill_atom
         IN memcached_set(bf_atom.key, bf_atom.value, bf_atom.flags, bf_atom.exptime,
                          "yes", "yes", InvalidCas, bf_atom.cas_or_zero, 0, InvalidTime,
                          d).data

(***************************************************************************)
(* The store: its state, and the inputs its operations are given.          *)
(***************************************************************************)
VARIABLES
  build,    \* "debug" or "release": whether rassert and DEBUG_ONLY are compiled in
  sb,       \* the metainfo pairs persisted on the superblock
  data,     \* the B-tree: key -> entry
  ops,      \* the operations, in the order their tokens were minted
  minted,   \* the number of tokens token_source has minted
  last,     \* the latest metainfo update: who made it, from what, with what
  shard,    \* the read being sharded and unsharded
  bf        \* the backfill between a sender and a receiver store

vars == <<build, sb, data, ops, minted, last, shard, bf>>

OpIds == 1..NumOps

\* the keys the operations of the store are given
OpKeys == {<<0>>, <<1>>}

\* the metainfo maps the operations are given as new_metainfo
MetaInputs ==
  { <<MkPair(Universe, <<1>>)>>,
    <<MkPair(KeyRange("none", MinKey, "open", <<0>>), <<1>>),
      MkPair(KeyRange("closed", <<0>>, "closed", <<0>>), <<>>)>> }

\* the metainfo a caller may expect: the current one, or one of the inputs
ExpectedInputs(sb_buf) == {get_metainfo_internal(sb_buf)} \cup MetaInputs

get_cas_mutation_t(key) == [type |-> "get_cas", key |-> key]

sarc_mutation_t(key, value, flags, exptime, add_policy, replace_policy, old_cas) ==
  [type |-> "sarc", key |-> key, data |-> value, flags |-> flags, exptime |-> exptime,
   add_policy |-> add_policy, replace_policy |-> replace_policy, old_cas |-> old_cas]

incr_decr_mutation_t(kind, key, amount) ==
  [type |-> "incr_decr", kind |-> kind, key |-> key, amount |-> amount]

append_prepend_mutation_t(kind, key, value) ==
  [type |-> "append_prepend", kind |-> kind, key |-> key, data |-> value]

delete_mutation_t(key, dont_put_in_delete_queue) ==
  [type |-> "delete", key |-> key, dont_put_in_delete_queue |-> dont_put_in_delete_queue]

\* the mutations the writes of the store are given
Mutations ==
  { sarc_mutation_t(k, <<1>>, 0, 0, "yes", "yes", InvalidCas) : k \in OpKeys }
  \cup { delete_mutation_t(k, FALSE) : k \in OpKeys }
  \cup { get_cas_mutation_t(<<0>>),
         sarc_mutation_t(<<0>>, <<>>, 0, 0, "yes", "no", InvalidCas),
         incr_decr_mutation_t("incr_decr_INCR", <<0>>, 1),
         append_prepend_mutation_t("append_prepend_APPEND", <<0>>, <<1>>) }

\* the cas a write proposes: none for a delete
ProposedCas(m) == IF m.type = "delete" THEN {InvalidCas} ELSE {1}

ReadKinds == {"read", "get_metainfo"}

BackfillKinds == {"send_backfill"}

WriteKinds == {"write", "set_metainfo", "receive_backfill", "reset_data"}

NoOp ==
  [pc |-> "unminted", token |-> "none", kind |-> "none", intr |-> FALSE,
   gotSb |-> FALSE, metaDone |-> FALSE, mutDone |-> FALSE, applied |-> FALSE,
   mismatch |-> FALSE, steps |-> <<>>]

NoLast == [op |-> 0, old |-> <<>>, new |-> <<>>]

NoShard == [pc |-> "off"]

NoBackfill == [pc |-> "off"]

StoreInit ==
  /\ build \in {"debug", "release"}
  /\ sb = store_created_metainfo
  /\ data = EmptyData
  /\ ops = [i \in OpIds |-> NoOp]
  /\ minted = 0
  /\ last = NoLast

Init == StoreInit /\ shard = NoShard /\ bf = NoBackfill

\* a failed rassert aborts the process
Crashed == \E i \in OpIds : ops[i].pc = "asserted"

(***************************************************************************)
(* The FIFO enforcer and the superblock lock.                              *)
(***************************************************************************)
\* new_read_token: token_source.enter_read and an exit_read_t on token_sink
new_read_token ==
  /\ ~Crashed
  /\ minted < NumOps
  /\ minted' = minted + 1
  /\ ops' = [ops EXCEPT ![minted + 1] = [NoOp EXCEPT !.pc = "minted", !.token = "read"]]
  /\ UNCHANGED <<build, sb, data, last, shard, bf>>

\* new_write_token: token_source.enter_write and an exit_write_t on token_sink
new_write_token ==
  /\ ~Crashed
  /\ minted < NumOps
  /\ minted' = minted + 1
  /\ ops' = [ops EXCEPT ![minted + 1] = [NoOp EXCEPT !.pc = "minted", !.token = "write"]]
  /\ UNCHANGED <<build, sb, data, last, shard, bf>>

\* the token dropped as soon as the enforcer wait returns
TokenHeldUntilWait(pc) == pc \in {"minted", "wait"}

\* the token of an interrupted operation staying in the sink
TokenHeldAfterInterrupt(pc) == pc \in {"minted", "wait", "getsb", "interrupted"}

\* the token kept until the operation itself returns
TokenHeldThroughTransaction(pc) == pc \in {"minted", "wait", "getsb", "txn", "txn2"}

\* the token taken out of local_token and never destroyed, on a return and
\* on a throw alike
TokenLeakedByAcquire(pc) == pc # "unminted"

\* the token lives in the caller's holder, then in local_token until
\* acquire_superblock_for_* returns or throws
TokenHeld(pc) == pc \in {"minted", "wait", "getsb"}

\* the sink lets a read through once every earlier write has been released
ReadAdmissible(i) ==
  \A j \in 1..(i - 1) : ops[j].token = "write" => ~TokenHeld(ops[j].pc)

\* the sink lets a write through once every earlier token has been released
WriteAdmissible(i) == \A j \in 1..(i - 1) : ~TokenHeld(ops[j].pc)

InTxn(pc) == pc \in {"txn", "txn2"}

\* the superblock is shared by readers and exclusive to a writer
ReadLockFree(i) ==
  \A j \in OpIds \ {i} : InTxn(ops[j].pc) => ops[j].token = "read"

WriteLockFree(i) == \A j \in OpIds \ {i} : ~InTxn(ops[j].pc)

(***************************************************************************)
(* Superblock acquisition: the caller's token is swapped into local_token, *)
(* the enforcer is awaited (interruptibly), the order token is checked in, *)
(* the B-tree hands out the superblock, and local_token is destroyed as    *)
(* the function returns.                                                   *)
(***************************************************************************)
\* an operation that has returned or aborted has let go of its interruptor
SetOp(i, rec) ==
  ops' = [ops EXCEPT ![i] = IF rec.pc \in {"done", "asserted"}
                            THEN [rec EXCEPT !.intr = FALSE] ELSE rec]

\* an operation is called with its token: local_token.swap(token)
AcquireBegin(i, kinds) ==
  /\ ops[i].pc = "minted"
  /\ \E kind \in kinds :
       SetOp(i, [ops[i] EXCEPT !.pc = "wait", !.kind = kind, !.steps = Append(@, "swap")])

\* wait_interruptible(signal, interruptor): it blocks until one of the two is
\* pulsed, throws when the interruptor is pulsed, and returns otherwise
wait_interruptible(signal, interruptor) ==
  IF interruptor THEN "interrupted_exc_t"
  ELSE IF signal THEN "returned"
  ELSE "blocked"

\* the wait not looking at the sink
AcquireWaitIgnoringSink(i, admissible) ==
  /\ ops[i].pc = "wait"
  /\ LET outcome == wait_interruptible(TRUE, ops[i].intr)
     IN SetOp(i, [ops[i] EXCEPT
                    !.pc = IF outcome = "returned" THEN "getsb" ELSE "interrupted"])

\* the wait not looking at the interruptor
AcquireWaitUninterruptible(i, admissible) ==
  /\ ops[i].pc = "wait"
  /\ admissible
  /\ SetOp(i, [ops[i] EXCEPT !.pc = "getsb"])

\* wait_interruptible(local_token.get(), interruptor): on return the order
\* token is checked in; on interrupted_exc_t the unwinding destroys local_token
AcquireWait(i, admissible) ==
  /\ ops[i].pc = "wait"
  /\ LET outcome == wait_interruptible(admissible, ops[i].intr)
     IN /\ outcome # "blocked"
        /\ SetOp(i, [ops[i] EXCEPT
                       !.pc = IF outcome = "returned" THEN "getsb" ELSE "interrupted",
                       !.steps = IF outcome = "returned"
                                 THEN @ \o <<"wait", "check_in", "check_through">>
                                 ELSE @])

\* the B-tree asked for the superblock while the enforcer wait is still on
AcquireSuperblockDuringWait(i, lock_free) ==
  /\ ops[i].pc \in {"wait", "getsb"}
  /\ lock_free
  /\ SetOp(i, [ops[i] EXCEPT !.pc = "txn", !.gotSb = TRUE,
                              !.steps = Append(@, "superblock")])

\* get_btree_superblock* returns the superblock and the transaction
AcquireSuperblock(i, lock_free) ==
  /\ ops[i].pc = "getsb"
  /\ lock_free
  /\ SetOp(i, [ops[i] EXCEPT !.pc = "txn", !.gotSb = TRUE,
                              !.steps = Append(@, "superblock")])

acquire_superblock_for_read(i) ==
  /\ ~Crashed
  /\ ops[i].token = "read"
  /\ ops[i].kind \in ReadKinds \cup {"none"}
  /\ \/ AcquireBegin(i, ReadKinds)
     \/ AcquireWait(i, ReadAdmissible(i))
     \/ AcquireSuperblock(i, ReadLockFree(i))
  /\ UNCHANGED <<build, sb, data, minted, last, shard, bf>>

acquire_superblock_for_backfill(i) ==
  /\ ~Crashed
  /\ ops[i].token = "read"
  /\ ops[i].kind \in BackfillKinds \cup {"none"}
  /\ \/ AcquireBegin(i, BackfillKinds)
     \/ AcquireWait(i, ReadAdmissible(i))
     \/ AcquireSuperblock(i, ReadLockFree(i))
  /\ UNCHANGED <<build, sb, data, minted, last, shard, bf>>

acquire_superblock_for_write(i) ==
  /\ ~Crashed
  /\ ops[i].token = "write"
  /\ \/ AcquireBegin(i, WriteKinds)
     \/ AcquireWait(i, WriteAdmissible(i))
     \/ AcquireSuperblock(i, WriteLockFree(i))
  /\ UNCHANGED <<build, sb, data, minted, last, shard, bf>>

\* the interruptor of an operation is pulsed: during the enforcer wait, or
\* later, when nothing looks at it any more
InterruptorFires(i) ==
  /\ ~Crashed
  /\ ops[i].pc \in {"wait", "getsb", "txn", "txn2"}
  /\ ~ops[i].intr
  /\ SetOp(i, [ops[i] EXCEPT !.intr = TRUE])
  /\ UNCHANGED <<build, sb, data, minted, last, shard, bf>>

(***************************************************************************)
(* The operations of the store, each from the superblock it has acquired.  *)
(***************************************************************************)
\* the rassert of get_metainfo_internal
DomainAsserted(sb_buf) ==
  build = "debug" /\ get_domain(get_metainfo_internal(sb_buf)) # Universe

InBody(i, kind, pc) == ~Crashed /\ ops[i].kind = kind /\ ops[i].pc = pc

get_metainfo(i) ==
  /\ InBody(i, "get_metainfo", "txn")
  /\ SetOp(i, [ops[i] EXCEPT !.pc = IF DomainAsserted(sb) THEN "asserted" ELSE "done"])
  /\ UNCHANGED <<build, sb, data, minted, last, shard, bf>>

set_metainfo(i) ==
  /\ InBody(i, "set_metainfo", "txn")
  /\ \E new_metainfo \in MetaInputs :
       IF DomainAsserted(sb)
       THEN SetOp(i, [ops[i] EXCEPT !.pc = "asserted"]) /\ UNCHANGED <<sb, last>>
       ELSE LET old_metainfo == get_metainfo_internal(sb)
            IN /\ sb' = update_metainfo(old_metainfo, new_metainfo, sb)
               /\ last' = [op |-> i, old |-> old_metainfo, new |-> new_metainfo]
               /\ SetOp(i, [ops[i] EXCEPT !.pc = "done", !.metaDone = TRUE])
  /\ UNCHANGED <<build, data, minted, shard, bf>>

read(i) ==
  /\ InBody(i, "read", "txn")
  /\ \E expected_metainfo \in ExpectedInputs(sb),
        query \in {get_query_t(k) : k \in OpKeys}
                  \cup {rget_query_t("rget_bound_none", MinKey, "rget_bound_closed", k) :
                          k \in OpKeys} :
       LET matches == check_metainfo_ok(expected_metainfo, sb)
           response == read_visitor(query, 0, data)
       IN SetOp(i, [ops[i] EXCEPT
                      !.pc = IF DomainAsserted(sb) \/ (build = "debug" /\ ~matches)
                             THEN "asserted" ELSE "done",
                      !.mismatch = ~matches])
  /\ UNCHANGED <<build, sb, data, minted, last, shard, bf>>

\* write returning after check_and_update_metainfo, the mutation not dispatched
write_metainfo_returns(i) ==
  /\ InBody(i, "write", "txn")
  /\ \E new_metainfo \in MetaInputs :
       /\ sb' = check_and_update_metainfo(new_metainfo, sb)
       /\ last' = [op |-> i, old |-> check_metainfo(sb), new |-> new_metainfo]
       /\ SetOp(i, [ops[i] EXCEPT !.pc = "done", !.metaDone = TRUE])
  /\ UNCHANGED <<build, data, minted, shard, bf>>

\* write updating the metainfo before it checks the expected one
write_metainfo_update_first(i) ==
  /\ InBody(i, "write", "txn")
  /\ \E expected_metainfo \in ExpectedInputs(sb), new_metainfo \in MetaInputs :
       LET matches == check_metainfo_ok(expected_metainfo, sb)
       IN /\ sb' = check_and_update_metainfo(new_metainfo, sb)
          /\ last' = [op |-> i, old |-> check_metainfo(sb), new |-> new_metainfo]
          /\ SetOp(i, [ops[i] EXCEPT
                         !.pc = IF build = "debug" /\ ~matches THEN "asserted" ELSE "txn2",
                         !.metaDone = TRUE, !.mismatch = ~matches])
  /\ UNCHANGED <<build, data, minted, shard, bf>>

\* write, first half: check_and_update_metainfo
write_metainfo(i) ==
  /\ InBody(i, "write", "txn")
  /\ \E expected_metainfo \in ExpectedInputs(sb), new_metainfo \in MetaInputs :
       LET matches == check_metainfo_ok(expected_metainfo, sb)
       IN IF DomainAsserted(sb) \/ (build = "debug" /\ ~matches)
          THEN /\ SetOp(i, [ops[i] EXCEPT !.pc = "asserted", !.mismatch = ~matches])
               /\ UNCHANGED <<sb, last>>
          ELSE /\ sb' = check_and_update_metainfo(new_metainfo, sb)
               /\ last' = [op |-> i, old |-> check_metainfo(sb), new |-> new_metainfo]
               /\ SetOp(i, [ops[i] EXCEPT !.pc = "txn2", !.metaDone = TRUE,
                                           !.mismatch = ~matches])
  /\ UNCHANGED <<build, data, minted, shard, bf>>

\* whether the B-tree carried the mutation out
Succeeded(result) ==
  CASE result.kind = "get_cas" -> result.found
    [] result.kind = "set" -> result.stored
    [] result.kind = "delete" -> result.res = "deleted"
    [] OTHER -> result.res = "success"

\* write giving up before the dispatch when its interruptor has been pulsed
write_dispatch_interruptible(i) ==
  /\ InBody(i, "write", "txn2")
  /\ IF ops[i].intr
     THEN SetOp(i, [ops[i] EXCEPT !.pc = "interrupted"]) /\ UNCHANGED data
     ELSE \E mutation \in Mutations, timestamp \in 1..MaxTime :
            \E proposed_cas \in ProposedCas(mutation) :
              LET response == write_visitor(mutation, proposed_cas, 0,
                                            to_repli_timestamp(timestamp), data)
              IN /\ data' = response.data
                 /\ SetOp(i, [ops[i] EXCEPT !.pc = "done", !.mutDone = TRUE,
                                             !.applied = Succeeded(response.result)])
  /\ UNCHANGED <<build, sb, minted, last, shard, bf>>

\* write putting the old metainfo back when the B-tree refuses the mutation
write_dispatch_undoing_overlay(i) ==
  /\ InBody(i, "write", "txn2")
  /\ \E mutation \in Mutations, timestamp \in 1..MaxTime :
       \E proposed_cas \in ProposedCas(mutation) :
         LET response == write_visitor(mutation, proposed_cas, 0,
                                       to_repli_timestamp(timestamp), data)
         IN /\ data' = response.data
            /\ sb' = IF Succeeded(response.result) THEN sb
                     ELSE WritePairs(clear_superblock_metainfo, last.old)
            /\ SetOp(i, [ops[i] EXCEPT !.pc = "done", !.mutDone = TRUE,
                                        !.applied = Succeeded(response.result)])
  /\ UNCHANGED <<build, minted, last, shard, bf>>

\* write, second half: the mutation is dispatched to the B-tree
write_dispatch(i) ==
  /\ InBody(i, "write", "txn2")
  /\ \E mutation \in Mutations, timestamp \in 1..MaxTime :
       \E proposed_cas \in ProposedCas(mutation) :
         LET response == write_visitor(mutation, proposed_cas, 0,
                                       to_repli_timestamp(timestamp), data)
         IN /\ data' = response.data
            /\ SetOp(i, [ops[i] EXCEPT !.pc = "done", !.mutDone = TRUE,
                                        !.applied = Succeeded(response.result)])
  /\ UNCHANGED <<build, sb, minted, last, shard, bf>>

write(i) == write_metainfo(i) \/ write_dispatch(i)

\* send_backfill erasing the keys of a backfill should_backfill declines
send_backfill_erasing_declined(i) ==
  /\ \E start_point \in
          { <<MkPair(Universe, 0)>>,
            <<MkPair(KeyRange("none", MinKey, "closed", <<0>>), 1),
              MkPair(KeyRange("open", <<0>>, "none", MinKey), 0)>> },
        should_backfill \in BOOLEAN,
        stale \in SUBSET {Leaves[l] : l \in 1..Len(Leaves)} :
       \/ /\ InBody(i, "send_backfill", "txn")
          /\ LET metainfo == mask(get_metainfo_internal(sb), get_domain(start_point))
                 chunks == IF should_backfill
                           THEN memcached_backfill(start_point[1].region,
                                                   to_repli_timestamp(start_point[1].value),
                                                   stale, data)
                           ELSE <<>>
             IN /\ IF DomainAsserted(sb)
                   THEN SetOp(i, [ops[i] EXCEPT !.pc = "asserted"])
                   ELSE IF should_backfill /\ Len(start_point) > 1
                   THEN SetOp(i, [ops[i] EXCEPT !.pc = "txn2"])
                   ELSE SetOp(i, [ops[i] EXCEPT !.pc = "done", !.applied = should_backfill])
             /\ data' = IF should_backfill THEN data
                        ELSE memcached_erase_range(get_domain(start_point), data)
       \/ /\ InBody(i, "send_backfill", "txn2")
          /\ Len(start_point) > 1
          /\ LET chunks == memcached_backfill(start_point[2].region,
                                              to_repli_timestamp(start_point[2].value),
                                              stale, data)
             IN SetOp(i, [ops[i] EXCEPT !.pc = "done", !.applied = TRUE])
          /\ UNCHANGED data
  /\ UNCHANGED <<build, sb, minted, last, shard, bf>>

\* send_backfill: the masked metainfo is handed to should_backfill, and the
\* tree is traversed once per partition of start_point, each traversal a
\* blocking call during which other operations run (at txn2 the first
\* partition has been traversed and the second has not); the superblock is
\* held to the end.  applied records the bool it returns
send_backfill(i) ==
  /\ \E start_point \in
          { <<MkPair(Universe, 0)>>,
            <<MkPair(KeyRange("none", MinKey, "closed", <<0>>), 1),
              MkPair(KeyRange("open", <<0>>, "none", MinKey), 0)>> },
        should_backfill \in BOOLEAN,
        stale \in SUBSET {Leaves[l] : l \in 1..Len(Leaves)} :
       \/ /\ InBody(i, "send_backfill", "txn")
          /\ LET metainfo == mask(get_metainfo_internal(sb), get_domain(start_point))
                 chunks == IF should_backfill
                           THEN memcached_backfill(start_point[1].region,
                                                   to_repli_timestamp(start_point[1].value),
                                                   stale, data)
                           ELSE <<>>
             IN /\ IF DomainAsserted(sb)
                   THEN SetOp(i, [ops[i] EXCEPT !.pc = "asserted"])
                   ELSE IF should_backfill /\ Len(start_point) > 1
                   THEN SetOp(i, [ops[i] EXCEPT !.pc = "txn2"])
                   ELSE SetOp(i, [ops[i] EXCEPT !.pc = "done", !.applied = should_backfill])
             /\ UNCHANGED data
       \/ /\ InBody(i, "send_backfill", "txn2")
          /\ Len(start_point) > 1
          /\ LET chunks == memcached_backfill(start_point[2].region,
                                              to_repli_timestamp(start_point[2].value),
                                              stale, data)
             IN SetOp(i, [ops[i] EXCEPT !.pc = "done", !.applied = TRUE])
          /\ UNCHANGED data
  /\ UNCHANGED <<build, sb, minted, last, shard, bf>>

receive_backfill(i) ==
  /\ InBody(i, "receive_backfill", "txn")
  /\ \E chunk \in
        { delete_key_chunk(<<0>>, 1),
          set_key_chunk([key |-> <<1>>, value |-> <<1>>, flags |-> 0, exptime |-> 0,
                         recency |-> 1, cas_or_zero |-> NoCas]),
          on_delete_range(Leaves[2].left, Leaves[2].right) } :
       data' = receive_backfill_visitor(chunk, data)
  /\ SetOp(i, [ops[i] EXCEPT !.pc = "done", !.mutDone = TRUE])
  /\ UNCHANGED <<build, sb, minted, last, shard, bf>>

\* reset_data, first half: the metainfo is overlaid
reset_data_metainfo(i) ==
  /\ InBody(i, "reset_data", "txn")
  /\ \E new_metainfo \in MetaInputs :
       IF DomainAsserted(sb)
       THEN SetOp(i, [ops[i] EXCEPT !.pc = "asserted"]) /\ UNCHANGED <<sb, last>>
       ELSE LET old_metainfo == get_metainfo_internal(sb)
            IN /\ sb' = update_metainfo(old_metainfo, new_metainfo, sb)
               /\ last' = [op |-> i, old |-> old_metainfo, new |-> new_metainfo]
               /\ SetOp(i, [ops[i] EXCEPT !.pc = "txn2", !.metaDone = TRUE])
  /\ UNCHANGED <<build, data, minted, shard, bf>>

\* reset_data, second half: the keys of subregion are erased
reset_data_erase(i) ==
  /\ InBody(i, "reset_data", "txn2")
  /\ \E subregion \in {Universe, KeyRange("closed", <<1>>, "none", MinKey)} :
       data' = memcached_erase_range(subregion, data)
  /\ SetOp(i, [ops[i] EXCEPT !.pc = "done", !.mutDone = TRUE])
  /\ UNCHANGED <<build, sb, minted, last, shard, bf>>

reset_data(i) == reset_data_metainfo(i) \/ reset_data_erase(i)

Next ==
  \/ new_read_token
  \/ new_write_token
  \/ \E i \in OpIds :
       \/ acquire_superblock_for_read(i)
       \/ acquire_superblock_for_backfill(i)
       \/ acquire_superblock_for_write(i)
       \/ InterruptorFires(i)
       \/ get_metainfo(i)
       \/ set_metainfo(i)
       \/ read(i)
       \/ write(i)
       \/ send_backfill(i)
       \/ receive_backfill(i)
       \/ reset_data(i)

Spec == Init /\ [][Next]_vars

(***************************************************************************)
(* The claims about the store.                                             *)
(***************************************************************************)
Released(pc) == pc \in {"txn", "txn2", "done", "interrupted", "asserted"}

WriteInProgress == \E i \in OpIds : ops[i].token = "write" /\ InTxn(ops[i].pc)

\* C1: whenever no write transaction is in progress the persisted metainfo is
\* a region map over universe: its domain is universe and every key lies in
\* exactly one partition; a freshly created store maps universe to the empty
\* blob.
C1_MetainfoDomainUniverse ==
  /\ ~WriteInProgress =>
       LET m == get_metainfo_internal(sb)
       IN /\ get_domain(m) = Universe
          /\ \A k \in Keys : Cardinality({i \in 1..Len(m) : contains_key(m[i].region, k)}) = 1
  /\ last.op = 0 => get_metainfo_internal(sb) = <<MkPair(Universe, <<>>)>>

\* C1 witness: two metainfo updates have been made, the later one on a part
\* of the key space, and no write transaction is in progress.
C1_Witness ==
  /\ ~WriteInProgress
  /\ last.op # 0
  /\ Len(last.old) > 1
  /\ get_domain(last.new) # Universe
  /\ \E i \in OpIds : ops[i].kind = "receive_backfill" /\ ops[i].pc = "done"

\* C2: of two operations whose tokens were minted in that order, one of them
\* a write, the later one holds the superblock (observes or changes the
\* store) only once the earlier one has finished: the earlier one never sees
\* the later one's effects and the later one sees all of the earlier one's.
C2_FifoOrder ==
  \A a \in OpIds : \A b \in OpIds :
    (a < b /\ "write" \in {ops[a].token, ops[b].token} /\ ops[b].gotSb)
      => ops[a].pc \in {"done", "interrupted"}

\* C2 witness: a write and a later read have both run to completion, and so
\* have a read and a later write.
C2_Witness ==
  /\ \E a \in OpIds : \E b \in OpIds :
       /\ a < b /\ ops[a].token = "write" /\ ops[b].token = "read"
       /\ ops[a].pc = "done" /\ ops[a].mutDone /\ ops[b].pc = "done"
  /\ \E a \in OpIds : \E b \in OpIds :
       /\ a < b /\ ops[a].token = "read" /\ ops[b].token = "write"
       /\ ops[a].pc = "done" /\ InTxn(ops[b].pc)

\* C3: a read token is past the enforcer wait only when every earlier write
\* token has been released, a write token only when every earlier token has
\* been released.
C3_EnforcerAdmission ==
  \A i \in OpIds :
    /\ (ops[i].token = "read" /\ (ops[i].pc = "getsb" \/ ops[i].gotSb))
         => \A j \in 1..(i - 1) : ops[j].token = "write" => Released(ops[j].pc)
    /\ (ops[i].token = "write" /\ (ops[i].pc = "getsb" \/ ops[i].gotSb))
         => \A j \in 1..(i - 1) : Released(ops[j].pc)

\* C3 witness: two reads are past the enforcer wait and hold their tokens at
\* the same time, while an earlier write holds the superblock.
C3_Witness ==
  \E w \in OpIds : \E i \in OpIds : \E j \in OpIds :
    /\ w < i /\ i < j
    /\ ops[w].token = "write" /\ InTxn(ops[w].pc)
    /\ ops[i].token = "read" /\ ops[i].pc = "getsb"
    /\ ops[j].token = "read" /\ ops[j].pc = "getsb"

\* C4 as stated: outside the write's own transaction its mutation has been
\* applied to the key data if and only if its new_metainfo has been overlaid.
C4_AppliedIffOverlaid ==
  \A w \in OpIds :
    (ops[w].kind = "write" /\ ~InTxn(ops[w].pc)) => (ops[w].applied <=> ops[w].metaDone)

\* C4 amended: outside the write's own transaction its mutation has been
\* dispatched to the B-tree if and only if its new_metainfo has been overlaid,
\* and a mutation is never applied without the overlay; a mutation the B-tree
\* refuses leaves the key data as it was, the metainfo overlaid.
C4_DispatchedIffOverlaid ==
  \A w \in OpIds :
    ops[w].kind = "write" =>
      /\ ~InTxn(ops[w].pc) => (ops[w].mutDone <=> ops[w].metaDone)
      /\ ops[w].applied => ops[w].metaDone
      /\ \A o \in OpIds \ {w} : InTxn(ops[o].pc) => (ops[w].mutDone <=> ops[w].metaDone)

\* C4 witness: a write has completed with both halves done while another
\* operation holds the superblock, and an interrupted write has done neither.
C4_Witness ==
  /\ \E w \in OpIds : \E o \in OpIds :
       /\ ops[w].kind = "write" /\ ops[w].pc = "done"
       /\ ops[w].metaDone /\ ops[w].mutDone /\ ops[w].applied
       /\ o # w /\ InTxn(ops[o].pc)
  /\ \E w \in OpIds :
       ops[w].kind = "write" /\ ops[w].pc = "interrupted"

\* C5: an operation whose interruptor is pulsed while it waits on the enforcer
\* leaves the wait only by failing with Interrupted; that step changes neither
\* the key data nor the metainfo, and the operation has acquired no superblock
\* and made no change.
C5_InterruptedIsClean ==
  /\ [][\A i \in OpIds :
          /\ (ops[i].pc = "wait" /\ ops[i].intr /\ ops'[i].pc # "wait")
               => ops'[i].pc = "interrupted"
          /\ (ops[i].pc # "interrupted" /\ ops'[i].pc = "interrupted")
               => (ops[i].pc = "wait" /\ data' = data /\ sb' = sb)]_vars
  /\ [](\A i \in OpIds :
          ops[i].pc = "interrupted"
            => ~ops[i].gotSb /\ ~ops[i].metaDone /\ ~ops[i].mutDone)

\* C5 witness: an operation of every acquisition flavour has been interrupted
\* in a store that earlier operations have written to.
C5_Witness ==
  /\ \E i \in OpIds : ops[i].pc = "interrupted" /\ ops[i].kind = "write"
  /\ \E i \in OpIds : ops[i].pc = "interrupted" /\ ops[i].kind \in {"read", "send_backfill"}
  /\ \E i \in OpIds : ops[i].pc = "done" /\ ops[i].metaDone /\ ops[i].mutDone

\* C6: after the latest metainfo update (by write, set_metainfo or reset_data,
\* with new_metainfo on a store whose metainfo was old) the persisted metainfo
\* masked to new_metainfo's domain equals new_metainfo, every key outside
\* that domain has the value it had in old, and the whole equals
\* old.update(new_metainfo).
C6_MetainfoIsOldUpdatedWithNew ==
  last.op # 0 =>
    LET cur == get_metainfo_internal(sb)
        dom == get_domain(last.new)
    IN /\ RegionMapEq(mask(cur, dom), last.new)
       /\ \A k \in Keys : ~contains_key(dom, k) => ValuesAt(cur, k) = ValuesAt(last.old, k)
       /\ \A k \in Keys : contains_key(dom, k) => ValuesAt(cur, k) = ValuesAt(last.new, k)
       /\ RegionMapEq(cur, update(last.old, last.new))

\* C6 witness: an operation has completed after overlaying a new_metainfo of
\* two partitions over part of the key space on a metainfo that was itself
\* the result of an overlay.
C6_Witness ==
  /\ last.op # 0
  /\ ops[last.op].pc = "done"
  /\ ops[last.op].kind \in {"write", "reset_data"}
  /\ Len(last.new) = 2
  /\ Len(last.old) > 1

\* C7 as stated: a read or write whose expected_metainfo differs from the
\* persisted metainfo masked to its domain fails, before any update or
\* dispatch.
C7_MismatchFails ==
  \A i \in OpIds :
    ops[i].mismatch => (ops[i].pc = "asserted" /\ ~ops[i].metaDone /\ ~ops[i].mutDone)

\* C7 amended: in a debug build such a read or write trips the rassert of
\* check_metainfo (the process aborts; no MetainfoMismatch error is raised)
\* before the metainfo is updated and before the query or mutation is
\* dispatched, the key data and metainfo unchanged; in a release build
\* expected_metainfo is compiled out and the operation proceeds unchecked.
C7_MismatchAssertsInDebugOnly ==
  /\ [](\A i \in OpIds :
          /\ (ops[i].mismatch /\ build = "debug")
               => (ops[i].pc = "asserted" /\ ~ops[i].metaDone /\ ~ops[i].mutDone)
          /\ build = "release" => ops[i].pc # "asserted"
          /\ ops[i].pc = "asserted" => ops[i].mismatch)
  /\ [][\A i \in OpIds :
          (ops[i].pc # "asserted" /\ ops'[i].pc = "asserted")
            => (data' = data /\ sb' = sb)]_vars

\* C7 witness: in a debug build a write has tripped the rassert on a store
\* whose metainfo an earlier operation had changed.
C7_Witness ==
  /\ build = "debug"
  /\ \E i \in OpIds : ops[i].kind = "write" /\ ops[i].pc = "asserted" /\ ops[i].mismatch
  /\ last.op # 0

(***************************************************************************)
(* The request algebra: a read is sharded over the parts of its region,    *)
(* each sub-read is executed on a store holding the same data, and the     *)
(* responses are unsharded.                                                *)
(***************************************************************************)
MaxCuts == 2

\* the longest vector of responses handed to unshard
MaxResponses == 2

\* the key ranges the constructor of key_range_t can build
KeyRanges ==
  {rg \in {MkRange(l, r) : l \in Keys,
                           r \in {RightUnbounded} \cup {RightKey(k) : k \in Keys}} :
     rg.right.unbounded \/ KeyLeq(rg.left, rg.right.key)}

\* the reads, at two effective times, whose bounds give a key range
ValidReads ==
  LET bounds == {<<"rget_bound_none", MinKey>>}
                \cup {<<mode, k>> : mode \in {"rget_bound_open", "rget_bound_closed"},
                                    k \in Keys}
      queries == {get_query_t(k) : k \in Keys}
                 \cup {rget_query_t(l[1], l[2], r[1], r[2]) : l \in bounds, r \in bounds}
  IN {r \in {read_t(q, t) : q \in queries, t \in {0, 1}} : read_get_region(r) \in KeyRanges}

\* two stores' worth of data: every key holding its own bytes; and some keys
\* missing, one deleted, one expired from effective_time 1 on
DataInputs ==
  { [k \in Keys |-> Live(k, 0, 0, NoCas, 0)],
    [k \in Keys |->
       CASE k = <<0>> -> Live(k, 0, 1, NoCas, 0)
         [] k = <<1>> -> Tombstone(1)
         [] Len(k) = 2 /\ k[2] = 0 -> NoValue
         [] OTHER -> Live(k, 0, 0, NoCas, 0)] }

RECURSIVE PartsAt(_, _)
PartsAt(region, cuts) ==
  IF cuts = {} THEN <<region>>
  ELSE LET c == CHOOSE k \in cuts : \A j \in cuts : KeyLeq(k, j)
       IN <<MkRange(region.left, RightKey(c))>>
          \o PartsAt(MkRange(c, region.right), cuts \ {c})

\* the partitions of a region into at most MaxCuts + 1 contiguous ranges, cut
\* at keys strictly inside it
Partitions(region) ==
  LET points == {k \in Keys : KeyLess(region.left, k) /\ KeyBelowRight(k, region.right)}
  IN {PartsAt(region, cuts) : cuts \in {c \in SUBSET points : Cardinality(c) <= MaxCuts}}

Reverse(seq) == [i \in 1..Len(seq) |-> seq[Len(seq) + 1 - i]]

\* the input is either a read, the data of the stores and the parts of the
\* read's region in the order the responses come back, or a read and a key
\* range its region contains, or the arguments of one call of read_t::unshard
\* for a Get, of write_t::shard or of write_t::unshard, or a stream of bytes
\* to read a data buffer from, or a data buffer to write and read back
InitShard ==
  /\ StoreInit
  /\ bf = NoBackfill
  /\ \/ \E r \in ValidReads :
          \/ \E d \in DataInputs, parts \in Partitions(read_get_region(r)),
                reversed \in BOOLEAN :
               shard = [pc |-> "sharding", read |-> r, d |-> d,
                        parts |-> IF reversed THEN Reverse(parts) ELSE parts,
                        responses |-> <<>>]
          \/ \E sub \in {rg \in KeyRanges : region_is_superset(read_get_region(r), rg)} :
               shard = [pc |-> "shard", read |-> r, sub |-> sub]
     \/ LET get_responses == {memcached_get(k, 0, d) : k \in Keys, d \in DataInputs}
            write_responses ==
              UNION {{write_visitor(m, c, 0, 0, d).result :
                        c \in ProposedCas(m), d \in DataInputs} : m \in Mutations}
            vectors(S) == UNION {[1..n -> S] : n \in 0..MaxResponses}
        IN \/ \E r \in {v \in ValidReads : v.query.type = "get"},
                 responses \in vectors(get_responses) :
                shard = [pc |-> "call", op |-> "read_unshard", read |-> r,
                         responses |-> responses, garbage |-> get_responses,
                         result |-> "none"]
           \/ \E m \in Mutations, region \in KeyRanges :
                shard = [pc |-> "call", op |-> "write_shard", write |-> [mutation |-> m],
                         region |-> region, result |-> "none"]
           \/ \E m \in Mutations, responses \in vectors(write_responses) :
                shard = [pc |-> "call", op |-> "write_unshard", write |-> [mutation |-> m],
                         responses |-> responses, garbage |-> write_responses,
                         result |-> "none"]
     \/ \E n \in 0..(1 + Int64Bytes + MaxValueLen) : \E s \in [1..n -> Bytes] :
          \E fails \in BOOLEAN :
            /\ (n >= 1 + Int64Bytes /\ s[1] # 0)
                 => \E size \in (0 - ((MaxByte + 1) ^ Int64Bytes) \div 2)..(MaxValueLen + 1) :
                      SubSeq(s, 2, 1 + Int64Bytes) = serialize_int64(size)
            /\ shard = [pc |-> "stream", stream |-> s, fails |-> fails]
     \/ \E n \in 0..MaxValueLen : \E bytes \in [1..n -> Bytes] :
          shard = [pc |-> "buffer", buf |-> [present |-> TRUE, bytes |-> bytes]]
     \/ shard = [pc |-> "buffer", buf |-> [present |-> FALSE, bytes |-> <<>>]]

\* r.shard(sub) for a part of r's region, executed on a store holding d
shard_execute ==
  /\ shard.pc = "sharding"
  /\ Len(shard.responses) < Len(shard.parts)
  /\ LET sub == shard.parts[Len(shard.responses) + 1]
         part == read_shard(shard.read, sub)
     IN shard' = [shard EXCEPT !.responses =
                    Append(@, read_visitor(part.query, part.effective_time, shard.d))]
  /\ UNCHANGED <<build, sb, data, ops, minted, last, bf>>

\* r.unshard of the responses, next to r executed on one store holding d
unshard ==
  /\ shard.pc = "sharding"
  /\ Len(shard.responses) = Len(shard.parts)
  /\ shard' = [pc |-> IF build = "debug" /\ ~read_unshard_pre(shard.read, shard.responses)
                      THEN "asserted" ELSE "unsharded",
               read |-> shard.read, d |-> shard.d, parts |-> shard.parts,
               merged |-> read_unshard(shard.read, shard.responses),
               single |-> read_visitor(shard.read.query, shard.read.effective_time, shard.d)]
  /\ UNCHANGED <<build, sb, data, ops, minted, last, bf>>

\* r.shard(sub) for a key range within r's region; in a debug build the
\* rasserts of read_shard_visitor_t guard it
shard_once ==
  /\ shard.pc = "shard"
  /\ shard' = IF build = "debug" /\ ~read_shard_pre(shard.read, shard.sub)
              THEN [pc |-> "asserted", read |-> shard.read, sub |-> shard.sub]
              ELSE [pc |-> "sharded", read |-> shard.read, sub |-> shard.sub,
                    part |-> read_shard(shard.read, shard.sub)]
  /\ UNCHANGED <<build, sb, data, ops, minted, last, bf>>

\* read_t::unshard of a Get on any vector of responses.  The rassert guards
\* the size in a debug build only; bits[0] of an empty vector is undefined
\* behaviour: the process may crash or carry on with whatever the read gives
call_read_unshard ==
  /\ shard.pc = "call"
  /\ shard.op = "read_unshard"
  /\ IF build = "debug" /\ ~read_unshard_pre(shard.read, shard.responses)
     THEN shard' = [shard EXCEPT !.pc = "asserted"]
     ELSE IF shard.responses = <<>>
     THEN \/ shard' = [shard EXCEPT !.pc = "undefined"]
          \/ \E g \in shard.garbage : shard' = [shard EXCEPT !.pc = "returned", !.result = g]
     ELSE shard' = [shard EXCEPT !.pc = "returned",
                                 !.result = read_unshard(shard.read, shard.responses)]
  /\ UNCHANGED <<build, sb, data, ops, minted, last, bf>>

\* write_t::shard for any key range
call_write_shard ==
  /\ shard.pc = "call"
  /\ shard.op = "write_shard"
  /\ IF build = "debug" /\ ~write_shard_pre(shard.write, shard.region)
     THEN shard' = [shard EXCEPT !.pc = "asserted"]
     ELSE shard' = [shard EXCEPT !.pc = "returned",
                                 !.result = write_shard(shard.write, shard.region)]
  /\ UNCHANGED <<build, sb, data, ops, minted, last, bf>>

\* write_t::unshard reporting an error unless there is exactly one response
call_write_unshard_checking ==
  /\ shard.pc = "call"
  /\ shard.op = "write_unshard"
  /\ IF ~write_unshard_pre(shard.responses)
     THEN shard' = [shard EXCEPT !.pc = "failed"]
     ELSE shard' = [shard EXCEPT !.pc = "returned",
                                 !.result = write_unshard(shard.write, shard.responses)]
  /\ UNCHANGED <<build, sb, data, ops, minted, last, bf>>

\* write_t::unshard on any vector of responses; responses[0] of an empty
\* vector is undefined behaviour
call_write_unshard ==
  /\ shard.pc = "call"
  /\ shard.op = "write_unshard"
  /\ IF build = "debug" /\ ~write_unshard_pre(shard.responses)
     THEN shard' = [shard EXCEPT !.pc = "asserted"]
     ELSE IF shard.responses = <<>>
     THEN \/ shard' = [shard EXCEPT !.pc = "undefined"]
          \/ \E g \in shard.garbage : shard' = [shard EXCEPT !.pc = "returned", !.result = g]
     ELSE shard' = [shard EXCEPT !.pc = "returned",
                                 !.result = write_unshard(shard.write, shard.responses)]
  /\ UNCHANGED <<build, sb, data, ops, minted, last, bf>>

\* a data buffer is written to a message, which a stream then gives whole
data_buffer_serialize ==
  /\ shard.pc = "buffer"
  /\ \E fails \in BOOLEAN :
       shard' = [pc |-> "serialized", buf |-> shard.buf,
                 stream |-> serialize_data_buffer(shard.buf), fails |-> fails]
  /\ UNCHANGED <<build, sb, data, ops, minted, last, bf>>

\* a data buffer is read from a stream: the message just written, or any
\* bytes at all that announce no more than MaxValueLen + 1 bytes; the
\* memory of the buffer created holds any bytes at all
data_buffer_deserialize ==
  /\ shard.pc \in {"stream", "serialized"}
  /\ \E uninitialised \in [1..(MaxValueLen + 1) -> Bytes] :
       LET got == deserialize_data_buffer(shard.stream, shard.fails, uninitialised)
       IN shard' = [pc |-> "deserialized", stream |-> shard.stream,
                    fails |-> shard.fails,
                    sent |-> IF shard.pc = "serialized" THEN <<shard.buf>> ELSE <<>>,
                    res |-> got.res, buf |-> got.buf]
  /\ UNCHANGED <<build, sb, data, ops, minted, last, bf>>

NextShard ==
  \/ shard_execute
  \/ unshard
  \/ shard_once
  \/ call_read_unshard
  \/ call_write_shard
  \/ call_write_unshard
  \/ data_buffer_serialize
  \/ data_buffer_deserialize

SpecShard == InitShard /\ [][NextShard]_vars

\* the keys of a range response ascend strictly
Ascending(pairs) ==
  \A i \in 1..Len(pairs) : \A j \in 1..Len(pairs) :
    i < j => KeyLess(pairs[i].key, pairs[j].key)

\* C8: for any read and any partition of its region into contiguous key
\* ranges, unsharding the responses of the sharded reads gives what the read
\* gives on one store with the same data; for an Rget these are the live
\* (key, value) pairs within the bounds, each once, in ascending key order.
C8_UnshardOfShardsIsSingleExecution ==
  shard.pc = "unsharded" =>
    /\ shard.merged = shard.single
    /\ shard.read.query.type = "rget" =>
         /\ Ascending(shard.merged)
         /\ \A k \in Keys :
              (\E i \in 1..Len(shard.merged) : shard.merged[i].key = k)
              <=> /\ contains_key(read_get_region(shard.read), k)
                  /\ IsLive(shard.d[k], shard.read.effective_time)
         /\ \A i \in 1..Len(shard.merged) :
              /\ IsLive(shard.d[shard.merged[i].key], shard.read.effective_time)
              /\ shard.merged[i].value = shard.d[shard.merged[i].key].value

\* C8 witness: an Rget with an open left and a closed right bound was cut in
\* three parts, the responses came back in descending order, and the merged
\* response holds at least three pairs.
C8_Witness ==
  /\ shard.pc = "unsharded"
  /\ shard.read.query.type = "rget"
  /\ shard.read.query.left_mode = "rget_bound_open"
  /\ shard.read.query.right_mode = "rget_bound_closed"
  /\ Len(shard.parts) = 3
  /\ KeyLess(shard.parts[3].left, shard.parts[1].left)
  /\ Len(shard.merged) >= 3

\* C9 as stated: for any read and any key range its region contains, the
\* sharded read has that key range as its region.
C9_ShardRegionIsSub ==
  shard.pc \in {"shard", "sharded", "asserted"} /\ "sub" \in DOMAIN shard =>
    (shard.pc = "sharded" => read_get_region(shard.part) = shard.sub)

\* C9 amended: for any read r and any key range sub within r's region, which
\* for a Get has to be the point region itself, r.shard(sub) has region sub
\* and r's effective_time; for an Rget the sub-query is closed on the left at
\* sub.left, and on the right none when sub.right is unbounded, otherwise
\* open at sub.right.key.  A Get sharded to an empty range within its region
\* stays the same Get, with the point region.
C9_ShardRegionIsSubWhenAllowed ==
  shard.pc = "sharded" =>
    LET r == shard.read
        sub == shard.sub
        part == shard.part
    IN /\ part.effective_time = r.effective_time
       /\ read_shard_pre(r, sub) => read_get_region(part) = sub
       /\ r.query.type = "get" => part = r
       /\ r.query.type = "rget" =>
            /\ read_shard_pre(r, sub)
            /\ part.query.type = "rget"
            /\ part.query.left_mode = "rget_bound_closed"
            /\ part.query.left_key = sub.left
            /\ part.query.right_mode =
                 (IF sub.right.unbounded THEN "rget_bound_none" ELSE "rget_bound_open")
            /\ ~sub.right.unbounded => part.query.right_key = sub.right.key

\* C9 witness: an Rget closed on both sides was sharded to a bounded key range
\* strictly inside its region.
C9_Witness ==
  /\ shard.pc = "sharded"
  /\ shard.read.query.type = "rget"
  /\ shard.read.query.left_mode = "rget_bound_closed"
  /\ shard.read.query.right_mode = "rget_bound_closed"
  /\ ~shard.sub.right.unbounded
  /\ ~region_is_empty(shard.sub)
  /\ shard.sub # read_get_region(shard.read)
  /\ shard.read.effective_time = 1

(***************************************************************************)
(* Backfill from a sender store S1 to a receiver store S2: S1 is written   *)
(* to, then send_backfill runs on it and S2 receives the chunks in the     *)
(* order they were emitted.                                                *)
(***************************************************************************)
MaxSenderWrites == 4

\* the mutations S1 is populated with
SenderMutations ==
  { sarc_mutation_t(k, k, 1, e, "yes", "yes", InvalidCas) :
      k \in {<<0>>, <<0, 0>>, <<1>>}, e \in {0, 1} }
  \cup { delete_mutation_t(k, FALSE) : k \in {<<0>>, <<0, 0>>, <<1>>} }
  \cup { get_cas_mutation_t(<<0>>),
         append_prepend_mutation_t("append_prepend_APPEND", <<1>>, <<0>>) }

InitBackfill ==
  /\ StoreInit
  /\ shard = NoShard
  /\ bf = [pc |-> "populate", writes |-> 0, s1 |-> EmptyData, s2 |-> EmptyData,
           chunks |-> <<>>]

\* a write on S1, before the backfill
sender_write ==
  /\ bf.pc = "populate"
  /\ bf.writes < MaxSenderWrites
  /\ \E mutation \in SenderMutations, timestamp \in {0, 1} :
       \E proposed_cas \in ProposedCas(mutation) :
         bf' = [bf EXCEPT
                  !.writes = @ + 1,
                  !.s1 = write_visitor(mutation, proposed_cas, 0,
                                       to_repli_timestamp(timestamp), @).data]
  /\ UNCHANGED <<build, sb, data, ops, minted, last, shard>>

\* send_backfill on S1 from start_point universe -> 0; chunk_fun queues the
\* chunks for S2
sender_send_backfill ==
  /\ bf.pc = "populate"
  /\ \E should_backfill \in BOOLEAN, stale \in SUBSET {Leaves[l] : l \in 1..Len(Leaves)} :
       bf' = [bf EXCEPT
                !.pc = IF should_backfill THEN "backfilling" ELSE "refused",
                !.chunks = IF should_backfill
                           THEN send_backfill_chunks(<<MkPair(Universe, 0)>>, stale, bf.s1)
                           ELSE <<>>]
  /\ UNCHANGED <<build, sb, data, ops, minted, last, shard>>

\* receive_backfill on S2 of the next chunk
receiver_receive_backfill ==
  /\ bf.pc = "backfilling"
  /\ bf.chunks # <<>>
  /\ bf' = [bf EXCEPT !.chunks = Tail(@),
                      !.s2 = receive_backfill_visitor(Head(bf.chunks), @)]
  /\ UNCHANGED <<build, sb, data, ops, minted, last, shard>>

NextBackfill == sender_write \/ sender_send_backfill \/ receiver_receive_backfill

SpecBackfill == InitBackfill /\ [][NextBackfill]_vars

BackfillComplete == bf.pc = "backfilling" /\ bf.chunks = <<>>

\* C10: S1 unchanged during the backfill and S2 empty at its start, once S2
\* has received every chunk of send_backfill(universe -> 0, should_backfill
\* true) in emission order, a Get of any key at any effective time finds a
\* value on S2 exactly when it does on S1, and then the same value and flags.
C10_BackfillCopiesTheValues ==
  BackfillComplete =>
    \A k \in Keys : \A t \in {0, 1} :
      LET g1 == memcached_get(k, t, bf.s1)
          g2 == memcached_get(k, t, bf.s2)
      IN /\ g1.found = g2.found
         /\ g1.value = g2.value
         /\ g1.flags = g2.flags

\* C10 witness: S1 held values in both leaves and a deleted key, one leaf had
\* lost its history, and S2 has received every chunk.
C10_Witness ==
  /\ BackfillComplete
  /\ memcached_get(<<0>>, 0, bf.s2).found
  /\ memcached_get(<<0, 0>>, 0, bf.s2).found
  /\ bf.s1[<<1>>].state = "deleted"
  /\ bf.s2[<<0>>].recency = InvalidTime

(***************************************************************************)
(* One store receiving a chunk: the store is written to, then              *)
(* receive_backfill is called with a chunk, and once more with the same    *)
(* chunk.                                                                  *)
(***************************************************************************)
MaxReceiverWrites == 3

InitReceive ==
  /\ StoreInit
  /\ shard = NoShard
  /\ bf = [pc |-> "populate", writes |-> 0, d |-> EmptyData, sbuf |-> store_created_metainfo,
           chunk |-> [type |-> "none"], pre |-> EmptyData, once |-> EmptyData]

\* a write on the store, before the chunk arrives
receiver_write ==
  /\ bf.pc = "populate"
  /\ bf.writes < MaxReceiverWrites
  /\ \E mutation \in SenderMutations, new_metainfo \in MetaInputs :
       \E proposed_cas \in ProposedCas(mutation) :
         bf' = [bf EXCEPT
                  !.writes = @ + 1,
                  !.sbuf = check_and_update_metainfo(new_metainfo, @),
                  !.d = write_visitor(mutation, proposed_cas, 0, to_repli_timestamp(1), @).data]
  /\ UNCHANGED <<build, sb, data, ops, minted, last, shard>>

\* receive_backfill overlaying a metainfo of its own, as write does
receiver_receive_once_overlaying ==
  /\ bf.pc = "populate"
  /\ LET ends == {NullKey}
                 \cup {SomeKey(k) : k \in {<<>>, <<0>>, <<0, 0>>, <<1>>, <<1, 1>>}}
         chunks ==
           { set_key_chunk([key |-> k, value |-> v, flags |-> 0, exptime |-> 0,
                            recency |-> 1, cas_or_zero |-> c]) :
               k \in {<<0>>, <<1>>}, v \in {<<>>, <<1>>}, c \in {NoCas, 1} }
           \cup { delete_key_chunk(k, 1) : k \in {<<0>>, <<1>>} }
           \cup { on_delete_range(p[1], p[2]) :
                    p \in {q \in ends \X ends :
                             ~(q[1].present /\ q[2].present /\ KeyLess(q[2].key, q[1].key))} }
     IN \E chunk \in chunks :
          LET after == receive_backfill_visitor(chunk, bf.d)
          IN bf' = [bf EXCEPT !.pc = "once", !.chunk = chunk, !.pre = bf.d,
                              !.d = after, !.once = after,
                              !.sbuf = check_and_update_metainfo(<<MkPair(Universe, <<1>>)>>, @)]
  /\ UNCHANGED <<build, sb, data, ops, minted, last, shard>>

\* receive_backfill of a chunk: SetKey or DeleteKey for some key, or
\* DeleteRange for a range on_delete_range builds from an exclusive left key
\* and an inclusive right key, either of them optional
receiver_receive_once ==
  /\ bf.pc = "populate"
  /\ LET ends == {NullKey}
                 \cup {SomeKey(k) : k \in {<<>>, <<0>>, <<0, 0>>, <<1>>, <<1, 1>>}}
         chunks ==
           { set_key_chunk([key |-> k, value |-> v, flags |-> 0, exptime |-> 0,
                            recency |-> 1, cas_or_zero |-> c]) :
               k \in {<<0>>, <<1>>}, v \in {<<>>, <<1>>}, c \in {NoCas, 1} }
           \cup { delete_key_chunk(k, 1) : k \in {<<0>>, <<1>>} }
           \cup { on_delete_range(p[1], p[2]) :
                    p \in {q \in ends \X ends :
                             ~(q[1].present /\ q[2].present /\ KeyLess(q[2].key, q[1].key))} }
     IN \E chunk \in chunks :
          LET after == receive_backfill_visitor(chunk, bf.d)
          IN bf' = [bf EXCEPT !.pc = "once", !.chunk = chunk, !.pre = bf.d,
                              !.d = after, !.once = after]
  /\ UNCHANGED <<build, sb, data, ops, minted, last, shard>>

\* receive_backfill of the same chunk again
receiver_receive_again ==
  /\ bf.pc = "once"
  /\ bf' = [bf EXCEPT !.pc = "twice", !.d = receive_backfill_visitor(bf.chunk, @)]
  /\ UNCHANGED <<build, sb, data, ops, minted, last, shard>>

\* reset_data erasing the keys of subregion.left as if the bound were exclusive
receiver_reset_data_keeping_left ==
  /\ bf.pc = "populate"
  /\ \E subregion \in KeyRanges, new_metainfo \in MetaInputs :
       bf' = [bf EXCEPT
                !.pc = "reset",
                !.chunk = [type |-> "reset_data", range |-> subregion],
                !.pre = bf.d,
                !.sbuf = update_metainfo(get_metainfo_internal(@), new_metainfo, @),
                !.d = memcached_erase_range_keys(subregion, TRUE, subregion.left,
                                                 FALSE, MinKey, @)]
  /\ UNCHANGED <<build, sb, data, ops, minted, last, shard>>

\* reset_data(subregion, new_metainfo): the metainfo is overlaid, then the
\* keys of subregion are erased
receiver_reset_data ==
  /\ bf.pc = "populate"
  /\ \E subregion \in KeyRanges, new_metainfo \in MetaInputs :
       bf' = [bf EXCEPT
                !.pc = "reset",
                !.chunk = [type |-> "reset_data", range |-> subregion],
                !.pre = bf.d,
                !.sbuf = update_metainfo(get_metainfo_internal(@), new_metainfo, @),
                !.d = memcached_erase_range(subregion, @)]
  /\ UNCHANGED <<build, sb, data, ops, minted, last, shard>>

\* send_backfill handing should_backfill the whole persisted metainfo
receiver_send_backfill_unmasked ==
  /\ bf.pc = "populate"
  /\ \E start_point \in
          { <<MkPair(Universe, 0)>>,
            <<MkPair(KeyRange("none", MinKey, "closed", <<0>>), 1),
              MkPair(KeyRange("open", <<0>>, "none", MinKey), 0)>>,
            <<MkPair(KeyRange("closed", <<0>>, "open", <<1>>), 1),
              MkPair(KeyRange("closed", <<1>>, "closed", <<1>>), 1)>> },
        should_backfill \in BOOLEAN,
        stale \in SUBSET {Leaves[l] : l \in 1..Len(Leaves)} :
       LET metainfo == get_metainfo_internal(bf.sbuf)
           parts == [i \in 1..Len(start_point) |->
                       memcached_backfill(start_point[i].region,
                                          to_repli_timestamp(start_point[i].value),
                                          stale, bf.d)]
       IN bf' = [bf EXCEPT
                   !.pc = "sent",
                   !.pre = bf.d,
                   !.d = @,
                   !.chunk = [type |-> "send_backfill", start_point |-> start_point,
                              stale |-> stale, answer |-> should_backfill,
                              calls |-> <<metainfo>>,
                              parts |-> IF should_backfill THEN parts ELSE <<>>,
                              returned |-> should_backfill]]
  /\ UNCHANGED <<build, sb, data, ops, minted, last, shard>>

\* send_backfill(start_point, should_backfill, chunk_fun): should_backfill is
\* asked about the metainfo masked to the domain of start_point; when it
\* agrees, memcached_backfill traverses the partitions of start_point one
\* after the other, chunk_fun collecting the chunks of each
receiver_send_backfill ==
  /\ bf.pc = "populate"
  /\ \E start_point \in
          { <<MkPair(Universe, 0)>>,
            <<MkPair(KeyRange("none", MinKey, "closed", <<0>>), 1),
              MkPair(KeyRange("open", <<0>>, "none", MinKey), 0)>>,
            <<MkPair(KeyRange("closed", <<0>>, "open", <<1>>), 1),
              MkPair(KeyRange("closed", <<1>>, "closed", <<1>>), 1)>> },
        should_backfill \in BOOLEAN,
        stale \in SUBSET {Leaves[l] : l \in 1..Len(Leaves)} :
       LET metainfo == mask(get_metainfo_internal(bf.sbuf), get_domain(start_point))
           parts == [i \in 1..Len(start_point) |->
                       memcached_backfill(start_point[i].region,
                                          to_repli_timestamp(start_point[i].value),
                                          stale, bf.d)]
       IN bf' = [bf EXCEPT
                   !.pc = "sent",
                   !.pre = bf.d,
                   !.d = @,
                   !.chunk = [type |-> "send_backfill", start_point |-> start_point,
                              stale |-> stale, answer |-> should_backfill,
                              calls |-> <<metainfo>>,
                              parts |-> IF should_backfill THEN parts ELSE <<>>,
                              returned |-> should_backfill]]
  /\ UNCHANGED <<build, sb, data, ops, minted, last, shard>>

\* set_metainfo(new_metainfo) for a region map over universe: every
\* partition of universe at up to MaxCuts keys, each part with a blob of no
\* bytes or of one
receiver_set_metainfo ==
  /\ bf.pc = "populate"
  /\ \E regions \in Partitions(Universe) :
       \E blobs \in [1..Len(regions) -> {<<>>, <<1>>}] :
         LET new_metainfo == [i \in 1..Len(regions) |-> MkPair(regions[i], blobs[i])]
             old_metainfo == get_metainfo_internal(bf.sbuf)
         IN bf' = [bf EXCEPT
                     !.pc = "meta",
                     !.chunk = [type |-> "set_metainfo", new_metainfo |-> new_metainfo],
                     !.sbuf = update_metainfo(old_metainfo, new_metainfo, @)]
  /\ UNCHANGED <<build, sb, data, ops, minted, last, shard>>

NextReceive ==
  \/ receiver_write
  \/ receiver_receive_once
  \/ receiver_receive_again
  \/ receiver_reset_data
  \/ receiver_send_backfill
  \/ receiver_set_metainfo

SpecReceive == InitReceive /\ [][NextReceive]_vars

\* C11: receive_backfill of a SetKey chunk twice in a row leaves the key data
\* as receive_backfill of it once does; the metainfo is the one the store had
\* before, both times.
C11_SetKeyTwiceIsSetKeyOnce ==
  /\ [](bf.pc = "twice" /\ bf.chunk.type = "set_key" => bf.d = bf.once)
  /\ [][bf.pc \in {"populate", "once"} /\ bf'.pc \in {"once", "twice"}
          => bf'.sbuf = bf.sbuf]_vars

\* C11 witness: a SetKey chunk carrying a cas was received twice for a key
\* that held another value with a cas, in a store whose metainfo had been
\* overlaid.
C11_Witness ==
  /\ bf.pc = "twice"
  /\ bf.chunk.type = "set_key"
  /\ bf.chunk.backfill_atom.cas_or_zero # NoCas
  /\ bf.pre[bf.chunk.backfill_atom.key].state = "live"
  /\ bf.pre[bf.chunk.backfill_atom.key].cas # NoCas
  /\ bf.pre[bf.chunk.backfill_atom.key].value # bf.chunk.backfill_atom.value
  /\ Len(bf.sbuf) > 1

\* C12: after reset_data(subregion, new_metainfo) no key contained in
\* subregion is present in the store and every key outside subregion has the
\* value it had before; after reset_data of universe an Rget over universe
\* yields no pair, whatever the time of the read.
C12_ResetDataErasesSubregion ==
  bf.pc = "reset" =>
    /\ \A k \in Keys :
         IF contains_key(bf.chunk.range, k)
         THEN bf.d[k] = NoValue
         ELSE bf.d[k] = bf.pre[k]
    /\ bf.chunk.range = Universe =>
         \A effective_time \in 0..MaxTime :
           read_visitor(rget_query_t("rget_bound_none", MinKey, "rget_bound_none", MinKey),
                        effective_time, bf.d) = <<>>

\* C12 witness: reset_data of a proper subregion erased a live key, the left
\* bound of subregion, and left a live key outside subregion in place.
C12_Witness ==
  /\ bf.pc = "reset"
  /\ bf.chunk.range # Universe
  /\ bf.pre[bf.chunk.range.left].state = "live"
  /\ bf.d[bf.chunk.range.left] = NoValue
  /\ \E k \in Keys : ~contains_key(bf.chunk.range, k) /\ bf.d[k].state = "live"

\* C13: send_backfill calls should_backfill exactly once, with the persisted
\* metainfo masked to the domain of start_point: a region map over that
\* domain giving each of its keys the value the persisted metainfo gives it.
\* When the predicate refuses, send_backfill returns false and no chunk is
\* handed to the callback; when it agrees, send_backfill returns true and
\* every partition of start_point has been traversed.
C13_ShouldBackfillDecides ==
  bf.pc = "sent" =>
    LET call == bf.chunk
        domain == get_domain(call.start_point)
    IN /\ Len(call.calls) = 1
       /\ get_domain(call.calls[1]) = domain
       /\ \A k \in Keys :
            ValuesAt(call.calls[1], k) =
              IF contains_key(domain, k)
              THEN ValuesAt(get_metainfo_internal(bf.sbuf), k) ELSE {}
       /\ ~call.answer => ~call.returned /\ call.parts = <<>>
       /\ call.answer => call.returned /\ Len(call.parts) = Len(call.start_point)

\* C13 witness: should_backfill agreed to a start_point of two partitions
\* covering a part of a metainfo of several partitions, and chunks were
\* emitted for both.
C13_Witness ==
  /\ bf.pc = "sent"
  /\ bf.chunk.returned
  /\ Len(bf.chunk.start_point) = 2
  /\ get_domain(bf.chunk.start_point) # Universe
  /\ Len(bf.sbuf) > 1
  /\ \A i \in 1..2 : bf.chunk.parts[i] # <<>>

\* C15: read_t::unshard for a Get and write_t::unshard fail with an error
\* unless the vector of responses has exactly one element, and then return
\* that response; write_t::shard(region) fails unless region is the point
\* region of the mutation's key, and otherwise returns the write.
C15_FailsUnlessOneResponse ==
  shard.pc \in {"returned", "undefined", "asserted", "failed"} /\ "op" \in DOMAIN shard =>
    /\ shard.op \in {"read_unshard", "write_unshard"} =>
         IF Len(shard.responses) = 1
         THEN shard.pc = "returned" /\ shard.result = shard.responses[1]
         ELSE shard.pc = "failed"
    /\ shard.op = "write_shard" =>
         IF shard.region = write_get_region(shard.write)
         THEN shard.pc = "returned" /\ shard.result = shard.write
         ELSE shard.pc = "failed"

\* C15 amended: none of the three calls ever reports an error.  With exactly
\* one response the two unshards return it, and write_t::shard with the point
\* region of the mutation's key returns the write.  Any other argument trips
\* an rassert in a debug build; in a release build write_t::shard returns the
\* write whatever the region, the unshards return the first of several
\* responses, and on no response at all their behaviour is undefined.
C15_AssertsInDebugOnly ==
  shard.pc \in {"returned", "undefined", "asserted", "failed"} /\ "op" \in DOMAIN shard =>
    LET allowed == IF shard.op = "write_shard"
                   THEN shard.region = write_get_region(shard.write)
                   ELSE Len(shard.responses) = 1
    IN /\ shard.pc # "failed"
       /\ allowed => shard.pc = "returned"
       /\ ~allowed /\ build = "debug" => shard.pc = "asserted"
       /\ ~allowed /\ build = "release" => shard.pc \in {"returned", "undefined"}
       /\ shard.pc = "undefined" => shard.responses = <<>>
       /\ shard.pc = "returned" =>
            IF shard.op = "write_shard" THEN shard.result = shard.write
            ELSE shard.responses # <<>> => shard.result = shard.responses[1]

\* C15 witness: a release build returned the first of two different
\* responses from write_t::unshard.
C15_Witness ==
  /\ shard.pc = "returned"
  /\ "op" \in DOMAIN shard
  /\ shard.op = "write_unshard"
  /\ build = "release"
  /\ Len(shard.responses) = 2
  /\ shard.responses[1] # shard.responses[2]
  /\ shard.result = shard.responses[1]

\* the tokens the enforcer has let through
EnforcerPosition ==
  Cardinality({i \in OpIds : ops[i].pc \in {"getsb", "txn", "txn2", "done", "asserted"}})

AcquireStep(i) ==
  \/ acquire_superblock_for_read(i)
  \/ acquire_superblock_for_backfill(i)
  \/ acquire_superblock_for_write(i)

\* C16: when the interruptor has fired on an operation waiting on the FIFO
\* enforcer the wait can return, whatever tokens are ahead of it; the step
\* out of the wait lets no token through the enforcer, and from then on the
\* operation's token holds no later token back: a waiting operation can go on
\* as soon as every earlier token it conflicts with has been released,
\* interrupted ones included.
C16_InterruptedWaitReleasesToken ==
  /\ [][\A i \in OpIds :
          (ops[i].pc = "wait" /\ ops'[i].pc = "interrupted")
            => /\ ops[i].intr
               /\ ~TokenHeld(ops'[i].pc)
               /\ EnforcerPosition' = EnforcerPosition]_vars
  /\ [](\A i \in OpIds :
          (/\ ~Crashed
           /\ ops[i].pc = "wait"
           /\ \/ ops[i].intr
              \/ \A a \in 1..(i - 1) :
                   "write" \in {ops[a].token, ops[i].token} => Released(ops[a].pc))
            => ENABLED AcquireStep(i))

\* C16 witness: a write was interrupted in its enforcer wait while an earlier
\* operation, past the wait, still held its token, and a later operation is
\* waiting behind both.
C16_Witness ==
  \E a \in OpIds : \E i \in OpIds : \E j \in OpIds :
    /\ a < i /\ i < j
    /\ ops[a].pc = "getsb"
    /\ ops[i].pc = "interrupted" /\ ops[i].token = "write"
    /\ ops[j].pc = "wait"

\* C17: a region map M over universe persisted by update_metainfo and read
\* back by get_metainfo_internal is a region map equal to M: it has the
\* partitions of M, each with the blob M gives it, and no others, also where
\* the blob has no bytes and where the partition has no right bound.
C17_MetainfoRoundTrip ==
  bf.pc = "meta" =>
    LET M == bf.chunk.new_metainfo
        back == get_metainfo_internal(bf.sbuf)
    IN /\ RegionMapEq(back, M)
       /\ get_domain(back) = Universe
       /\ {back[i] : i \in 1..Len(back)} = {M[i] : i \in 1..Len(M)}
       /\ Len(bf.sbuf) = Len(M)

\* C17 witness: a map of three partitions, the last one without a right
\* bound and with an empty blob, was persisted and is read back.
C17_Witness ==
  /\ bf.pc = "meta"
  /\ Len(bf.chunk.new_metainfo) = 3
  /\ bf.chunk.new_metainfo[3].region.right.unbounded
  /\ bf.chunk.new_metainfo[3].value = <<>>
  /\ bf.chunk.new_metainfo[1].value # <<>>
  /\ get_metainfo_internal(bf.sbuf)[3] = bf.chunk.new_metainfo[3]

AcquireSteps == <<"swap", "wait", "check_in", "check_through", "superblock">>

\* C18: in each acquire_superblock_for_* the steps happen in this order, none
\* without the ones before it: the token is swapped out of the caller's
\* holder, the enforcer wait returns, the order token is checked in to the
\* order source and through the B-tree's order checkpoint, and the B-tree is
\* asked for the superblock.  An operation that has the superblock has taken
\* every step; one interrupted in the wait has taken the first only.
C18_AcquireStepsInOrder ==
  \A i \in OpIds :
    /\ ops[i].steps = SubSeq(AcquireSteps, 1, Len(ops[i].steps))
    /\ Len(ops[i].steps) <= Len(AcquireSteps)
    /\ ops[i].steps # <<>> <=> ops[i].pc \notin {"unminted", "minted"}
    /\ ops[i].gotSb <=> ops[i].steps = AcquireSteps
    /\ ops[i].pc = "interrupted" => ops[i].steps = <<"swap">>

\* C18 witness: a read, a backfill and a write have each taken every step.
C18_Witness ==
  \A kinds \in {ReadKinds, BackfillKinds, WriteKinds} :
    \E i \in OpIds : ops[i].kind \in kinds /\ ops[i].steps = AcquireSteps

\* C19: after receive_backfill of a DeleteRange(range) chunk no key contained
\* in range holds a value, the key equal to range.left included, and every
\* key outside range is as it was before; for the ranges on_delete_range
\* builds from an exclusive left key and an inclusive right key, either of
\* them optional.
C19_DeleteRangeErasesTheRange ==
  bf.pc = "once" /\ bf.chunk.type = "delete_range" =>
    \A k \in Keys :
      IF contains_key(bf.chunk.range, k)
      THEN bf.d[k].state # "live"
      ELSE bf.d[k] = bf.pre[k]

\* C19 failing input: the store held a value under <<0, 0>>; the chunk is the
\* DeleteRange on_delete_range builds from the exclusive left key <<0>> and
\* no right key, whose range starts at <<0, 0>>; the value is still there.
C19_LeftBoundSurvives ==
  /\ bf.pc = "once"
  /\ bf.chunk = on_delete_range(SomeKey(<<0>>), NullKey)
  /\ bf.chunk.range.left = <<0, 0>>
  /\ contains_key(bf.chunk.range, <<0, 0>>)
  /\ bf.pre[<<0, 0>>].state = "live"
  /\ bf.d[<<0, 0>>] = bf.pre[<<0, 0>>]
  /\ \A k \in Keys \ {<<0, 0>>} : contains_key(bf.chunk.range, k) => bf.d[k] = NoValue

DataStep(i) == write_dispatch(i) \/ reset_data_erase(i) \/ receive_backfill(i)

\* C20: an operation whose enforcer wait has returned never fails with
\* Interrupted.  With its interruptor pulsed the steps it takes have their
\* whole effect: write overlays the metainfo and dispatches the mutation,
\* set_metainfo overlays the metainfo, reset_data overlays the metainfo and
\* erases the subregion, receive_backfill applies the chunk.  Nothing holds
\* it back either: it gets the superblock as soon as the lock is free, and
\* with the superblock it can always go on to change the key data.
C20_InterruptAfterWaitIsIgnored ==
  /\ [][\A i \in OpIds :
          /\ ops[i].pc \in {"getsb", "txn", "txn2"} => ops'[i].pc # "interrupted"
          /\ (ops[i].intr /\ ops[i].pc \in {"txn", "txn2"} /\ ops'[i].pc \in {"txn2", "done"}
                /\ ops'[i].pc # ops[i].pc)
               => /\ ops[i].kind \in {"write", "set_metainfo", "reset_data"}
                       /\ ops[i].pc = "txn"
                     => /\ ops'[i].metaDone
                        /\ last'.op = i
                        /\ RegionMapEq(get_metainfo_internal(sb'),
                                       update(get_metainfo_internal(sb), last'.new))
                  /\ ops[i].kind = "write" /\ ops'[i].pc = "done"
                     => /\ ops'[i].metaDone /\ ops'[i].mutDone
                        /\ \E mutation \in Mutations, timestamp \in 1..MaxTime :
                             \E proposed_cas \in ProposedCas(mutation) :
                               data' = write_visitor(mutation, proposed_cas, 0,
                                                     to_repli_timestamp(timestamp), data).data
                  /\ ops[i].kind = "reset_data" /\ ops'[i].pc = "done"
                     => /\ ops'[i].metaDone /\ ops'[i].mutDone
                        /\ \E subregion \in KeyRanges :
                             data' = memcached_erase_range(subregion, data)
                  /\ ops[i].kind = "receive_backfill"
                     => /\ ops'[i].mutDone
                        /\ \E chunk \in { delete_key_chunk(<<0>>, 1),
                                          on_delete_range(Leaves[2].left, Leaves[2].right) }
                                        \cup { set_key_chunk(
                                                 [key |-> <<1>>, value |-> <<1>>, flags |-> 0,
                                                  exptime |-> 0, recency |-> 1,
                                                  cas_or_zero |-> NoCas]) } :
                             data' = receive_backfill_visitor(chunk, data)]_vars
  /\ [](\A i \in OpIds :
          (/\ ~Crashed /\ ops[i].intr
           /\ \/ ops[i].pc = "txn2" /\ ops[i].token = "write"
              \/ ops[i].pc = "txn" /\ ops[i].kind = "receive_backfill")
            => ENABLED DataStep(i))
  /\ [](\A i \in OpIds :
          (/\ ~Crashed /\ ops[i].intr /\ ops[i].pc = "getsb"
           /\ IF ops[i].token = "read" THEN ReadLockFree(i) ELSE WriteLockFree(i))
            => ENABLED AcquireStep(i))

\* C20 witness: the interruptor of a write has been pulsed after its wait
\* returned; the write has overlaid the metainfo and is about to dispatch
\* its mutation, after a reset_data that has run to its end.
C20_Witness ==
  \E i \in OpIds : \E j \in OpIds :
    /\ ops[i].kind = "write" /\ ops[i].pc = "txn2" /\ ops[i].intr /\ ops[i].metaDone
    /\ ops[j].kind = "reset_data" /\ ops[j].pc = "done" /\ ops[j].mutDone

\* C21: receive_backfill leaves the persisted metainfo as it was, for every
\* chunk shape (DeleteRange, DeleteKey, SetKey): the pairs on the superblock
\* after the call are the pairs before it, and so is the region map they
\* decode to.
C21_ReceiveBackfillKeepsMetainfo ==
  [][(bf'.pc \in {"once", "twice"} /\ bf'.pc # bf.pc)
       => /\ bf'.chunk.type \in {"delete_range", "delete_key", "set_key"}
          /\ bf'.sbuf = bf.sbuf
          /\ get_metainfo_internal(bf'.sbuf) = get_metainfo_internal(bf.sbuf)]_vars

\* C21 witness: a DeleteRange chunk changed the key data of a store whose
\* metainfo has several partitions.
C21_Witness ==
  /\ bf.pc = "once"
  /\ bf.chunk.type = "delete_range"
  /\ bf.d # bf.pre
  /\ Len(get_metainfo_internal(bf.sbuf)) > 1

\* C22: deserializing a data buffer gives an error (a result other than 0)
\* when the stream ends before the flag or before the whole size, when the
\* size is negative (-3), and when fewer bytes than the size follow it (-2
\* at the end of the data, -1 on a read error); deserializing what
\* serializing a buffer of n >= 0 bytes wrote succeeds with a buffer of the
\* same n bytes.
C22_DataBufferDecoding ==
  shard.pc = "deserialized" =>
    LET s == shard.stream
        header == 1 + Int64Bytes
        NegativeSize == \E v \in 1..((MaxByte + 1) ^ Int64Bytes) \div 2 :
                          SubSeq(s, 2, header) = serialize_int64(0 - v)
        SizeBeyond == \E v \in (Len(s) - header + 1)..(((MaxByte + 1) ^ Int64Bytes - 1) \div 2) :
                        SubSeq(s, 2, header) = serialize_int64(v)
    IN /\ Len(s) < 1 => shard.res # 0
       /\ (Len(s) >= 1 /\ s[1] # 0 /\ Len(s) < header) => shard.res # 0
       /\ (Len(s) >= header /\ s[1] # 0 /\ NegativeSize) => shard.res = -3
       /\ (Len(s) >= header /\ s[1] # 0 /\ SizeBeyond)
            => shard.res = (IF shard.fails THEN -1 ELSE -2)
       /\ \A b \in {shard.sent[i] : i \in 1..Len(shard.sent)} :
            b.present => shard.res = 0 /\ shard.buf = b

\* C22 witness: a negative size was refused although bytes followed it.
C22_Witness ==
  /\ shard.pc = "deserialized"
  /\ Len(shard.stream) > 1 + Int64Bytes
  /\ SubSeq(shard.stream, 2, 1 + Int64Bytes) = serialize_int64(-1)
  /\ shard.res = -3

\* C23: the token of an operation is released by the step in which
\* acquire_superblock_for_read/backfill/write returns with the superblock:
\* held before it, not after.  Every step of the operation's own work - the
\* query, the mutation, the metainfo update, the backfill traversal, and so
\* every change of the key data or of the metainfo - is taken with the token
\* already released.  Hence a write waiting on the enforcer is let through
\* as soon as every earlier operation has returned from its acquire or was
\* interrupted, also while those operations are still at their B-tree work.
C23_TokenReleasedBeforeBtreeWork ==
  /\ [][\A i \in OpIds :
          /\ (~ops[i].gotSb /\ ops'[i].gotSb)
               => TokenHeld(ops[i].pc) /\ ~TokenHeld(ops'[i].pc)
          /\ (ops[i].gotSb /\ ops'[i] # ops[i]) => ~TokenHeld(ops[i].pc)]_vars
  /\ [][(data' # data \/ sb' # sb)
          => \E i \in OpIds :
               ops[i].gotSb /\ ~TokenHeld(ops[i].pc) /\ ops'[i].pc # ops[i].pc]_vars
  /\ [](\A j \in OpIds :
          (/\ ~Crashed
           /\ ops[j].pc = "wait" /\ ops[j].token = "write"
           /\ \A a \in 1..(j - 1) : ops[a].gotSb \/ ops[a].pc = "interrupted")
            => ENABLED AcquireStep(j))

\* C23 witness: a send_backfill holds the superblock and has not yet
\* traversed the tree, and a write minted after it has been let through by
\* the enforcer.
C23_Witness ==
  \E a \in OpIds : \E j \in OpIds :
    /\ a < j
    /\ ops[a].kind = "send_backfill" /\ ops[a].pc = "txn"
    /\ ops[j].token = "write" /\ ops[j].pc = "getsb"

\* C24: write overlays new_metainfo on the persisted metainfo before it
\* dispatches the mutation, and whatever the B-tree then answers: at the
\* dispatch the persisted metainfo is already old.update(new_metainfo) and
\* the dispatch leaves it so; a mutation the B-tree refuses (a Set its
\* add/replace policies forbid, a delete or an increment of a key that is
\* not there) leaves the key data as it was, the metainfo still overlaid.
C24_OverlayWhateverTheOutcome ==
  /\ [][\A i \in OpIds :
          (ops[i].kind = "write" /\ ~ops[i].mutDone /\ ops'[i].mutDone)
            => /\ ops[i].metaDone /\ last.op = i
               /\ RegionMapEq(get_metainfo_internal(sb), update(last.old, last.new))
               /\ sb' = sb /\ last' = last
               /\ ~ops'[i].applied => data' = data]_vars
  /\ [][\A i \in OpIds :
          (ops[i].kind = "write" /\ ~ops[i].metaDone /\ ops'[i].metaDone)
            => /\ ~ops[i].mutDone /\ ~ops'[i].mutDone /\ data' = data
               /\ last'.op = i /\ last'.old = get_metainfo_internal(sb)
               /\ RegionMapEq(get_metainfo_internal(sb'),
                              update(last'.old, last'.new))]_vars
  /\ [](\A i \in OpIds :
          (ops[i].kind = "write" /\ ops[i].pc = "done") => ops[i].metaDone /\ ops[i].mutDone)

\* C24 witness: a write has returned with its mutation refused by the
\* B-tree while the store holds a value under <<0>>, and the persisted
\* metainfo is the overlay, which differs from the old metainfo.
C24_Witness ==
  \E i \in OpIds :
    /\ ops[i].kind = "write" /\ ops[i].pc = "done"
    /\ ops[i].mutDone /\ ~ops[i].applied /\ ops[i].metaDone
    /\ last.op = i
    /\ data[<<0>>].state = "live"
    /\ RegionMapEq(get_metainfo_internal(sb), update(last.old, last.new))
    /\ ~RegionMapEq(get_metainfo_internal(sb), last.old)

\* C26: the operations that take a read token - read, get_metainfo and
\* send_backfill - leave the key data and the persisted metainfo as they
\* were at every step, from the minting of the token to the return, whatever
\* the outcome: a response, a backfill should_backfill declines, a failed
\* assertion, or Interrupted.
C26_ReadTokenOperationsChangeNothing ==
  [][\A i \in OpIds :
       ("read" \in {ops[i].token, ops'[i].token} /\ ops'[i] # ops[i])
         => /\ ops'[i].kind \in ReadKinds \cup BackfillKinds \cup {"none"}
            /\ data' = data
            /\ sb' = sb
            /\ get_metainfo_internal(sb') = get_metainfo_internal(sb)]_vars

\* C26 witness: on a store that holds a value and an overlaid metainfo, a
\* send_backfill has returned false (should_backfill declined) and another
\* operation with a read token was interrupted.
C26_Witness ==
  /\ \E k \in Keys : data[k].state = "live"
  /\ sb # store_created_metainfo
  /\ \E i \in OpIds : ops[i].kind = "send_backfill" /\ ops[i].pc = "done" /\ ~ops[i].applied
  /\ \E i \in OpIds : ops[i].token = "read" /\ ops[i].pc = "interrupted"

(***************************************************************************)
(* Progress.  The caller passes every token it mints to an operation, the  *)
(* B-tree grants a requested superblock once its lock is free, and an      *)
(* operation that has the superblock runs to its return: each of these is  *)
(* a step that is taken if it stays possible.  The interruptor may fire or *)
(* not.                                                                    *)
(***************************************************************************)
BodyStep(i) ==
  \/ get_metainfo(i) \/ set_metainfo(i) \/ read(i) \/ write(i)
  \/ send_backfill(i) \/ receive_backfill(i) \/ reset_data(i)

\* the operations the progress of the store is followed for
MaxFairOps == 2

\* an operation with the superblock can take its next step: this is
\* ENABLED BodyStep(i)
BodyReady(i) == ~Crashed /\ InTxn(ops[i].pc)

\* the runs the progress is followed on: the process is not aborted, that is
\* the callers keep what check_metainfo and the other rasserts require of
\* them (a failed rassert ends every operation of the process at once and
\* is what C7 is about)
FairNext == Next /\ minted' <= MaxFairOps /\ ~Crashed'

\* weak fairness of the acquisition steps and of the operation's own steps.
\* An operation takes at most two steps of its own, so that
\* WF_vars(BodyStep(i)), which is []<>~ENABLED <<BodyStep(i)>>_vars or
\* []<><<BodyStep(i)>>_vars, comes to []<>~BodyReady(i).
FairSpec ==
  /\ Init
  /\ [][FairNext]_vars
  /\ \A i \in OpIds : WF_vars(AcquireStep(i)) /\ []<>~BodyReady(i)

Returned(pc) == pc \in {"done", "interrupted"}

====
